---- MODULE Spec2Model ----
(***************************************************************************)
(* Model of the quotation generator: ContentControlProcessor               *)
(* (src/content_control_processor.py), which fills the content controls    *)
(* of a Word template part, and the HTTP servers that expose it            *)
(* (src/final_quotation_server.py, src/unified_server.py,                  *)
(* src/enhanced_quotation_generator.py).                                   *)
(*                                                                         *)
(* An XML part is a record [wf, decl, nodes]: decl is the sequence of XML   *)
(* declarations its text begins with, nodes is the element tree in         *)
(* document order (the order of ElementTree's iter()), every node carrying *)
(* its depth.  The subtree of node i is i and the nodes after it that are  *)
(* deeper than i.  An sdt node stands for <w:sdt> with its <w:sdtPr>       *)
(* (pr, alias, tag, rsi) and its <w:sdtContent> (content); the children of *)
(* an sdt node are the children of its sdtContent.                         *)
(*                                                                         *)
(* JSON values of the request are records [k, n, s]: a number (money in    *)
(* cents, quantities in units), a string, or an absent key.                *)
(***************************************************************************)
EXTENDS Integers, Sequences, FiniteSets, TLC

\* ------------------------------------------------------------------ bounds
\* Longest list of one-time cost items, and of recurring cost items.
MaxOneTime == 2
MaxRecurring == 1

\* ------------------------------------------------------------- JSON values
Num(n) == [k |-> "num", n |-> n, s |-> ""]
Str(s) == [k |-> "str", n |-> 0, s |-> s]
Absent == [k |-> "none", n |-> 0, s |-> ""]

\* dict.get(key, default) of a JSON object whose absent keys hold Absent.
Get(v, default) == IF v.k = "none" THEN default ELSE v

\* Python's str() of a JSON value.
PyStr(v) == IF v.k = "num" THEN ToString(v.n) ELSE v.s

\* float(v) raises for a string that is no number.
FloatRaises(v) == v.k = "str"

\* f"{x:.2f}" of an amount held in cents.
Fmt2(c) ==
    ToString(c \div 100) \o "." \o
    (IF c % 100 < 10 THEN "0" ELSE "") \o ToString(c % 100)

\* f"{x:.2f}" of an amount held in hundredths of a cent: the nearest cent.
Fmt2x(h) == Fmt2((h + 50) \div 100)

Euro(c) == "€" \o Fmt2(c)

\* ------------------------------------------------------------ XML elements
Sdt(d, alias, tag, rsi, content) ==
    [el |-> "sdt", depth |-> d, pr |-> TRUE, alias |-> alias, tag |-> tag,
     rsi |-> rsi, content |-> content, text |-> ""]
SdtNoPr(d) ==
    [el |-> "sdt", depth |-> d, pr |-> FALSE, alias |-> "", tag |-> "",
     rsi |-> "none", content |-> TRUE, text |-> ""]
El(d, name) ==
    [el |-> name, depth |-> d, pr |-> FALSE, alias |-> "", tag |-> "",
     rsi |-> "none", content |-> FALSE, text |-> ""]
Txt(d, text) ==
    [el |-> "t", depth |-> d, pr |-> FALSE, alias |-> "", tag |-> "",
     rsi |-> "none", content |-> FALSE, text |-> text]

Min(S) == CHOOSE x \in S : \A y \in S : x <= y
Max(S) == CHOOSE x \in S : \A y \in S : x >= y

\* Last index of the subtree rooted at i: the node before the next one that
\* is not deeper than i.
SubEnd(ns, i) ==
    LET later == {j \in (i + 1)..Len(ns) : ns[j].depth <= ns[i].depth}
    IN IF later = {} THEN Len(ns) ELSE Min(later) - 1

\* Proper descendants of i, in document order: what x.iter() yields after x.
Desc(ns, i) == (i + 1)..SubEnd(ns, i)

\* parent_map.get(i); 0 stands for None.
Parent(ns, i) ==
    LET up == {j \in 1..(i - 1) : ns[j].depth = ns[i].depth - 1}
    IN IF up = {} THEN 0 ELSE Max(up)

Children(ns, i) == {j \in Desc(ns, i) : ns[j].depth = ns[i].depth + 1}

\* parent.remove(node) for every node of rows: ns without their subtrees.
RECURSIVE Without(_, _)
Without(ns, rows) ==
    IF rows = {} THEN ns
    ELSE LET r == Max(rows)
         IN Without(SubSeq(ns, 1, r - 1) \o SubSeq(ns, SubEnd(ns, r) + 1, Len(ns)),
                    rows \ {r})

\* ns with the sequence ins put after index at.
InsertAfter(ns, at, ins) ==
    SubSeq(ns, 1, at) \o ins \o SubSeq(ns, at + 1, Len(ns))

\* ControlName taking the tag first.
ControlNameTagFirst(n) == IF n.tag # "" THEN n.tag ELSE n.alias

\* The name a control goes by: alias when non-empty, else tag; "" is None.
ControlName(n) == IF n.alias # "" THEN n.alias ELSE n.tag

\* ''.join of the text of every <w:t> inside the content of sdt i.
RECURSIVE Concat(_, _)
Concat(ns, ts) ==
    IF ts = {} THEN ""
    ELSE ns[Min(ts)].text \o Concat(ns, ts \ {Min(ts)})
Texts(ns, i) == {q \in Desc(ns, i) : ns[q].el = "t"}
ContentText(ns, i) == Concat(ns, Texts(ns, i))

\* The next sdt at or after index i in document order; Len + 1 when none.
NextSdt(ns, i) ==
    LET S == {j \in i..Len(ns) : ns[j].el = "sdt"}
    IN IF S = {} THEN Len(ns) + 1 ELSE Min(S)

\* ------------------------------------------------- the row setter (458-494)
\* _set_control_value_in_element over the nodes from j on: every sdt that
\* has an sdtPr, goes by control_name and has an sdtContent gets value in
\* the first <w:t> of its content; a content without <w:t> gets a new p/r/t.
RECURSIVE SetFrom(_, _, _, _)
SetFrom(ns, from, control_name, value) ==
    LET j == NextSdt(ns, from)
    IN IF j > Len(ns) THEN ns
       ELSE LET n == ns[j]
                ts == Texts(ns, j)
            IN IF ~n.pr \/ ControlName(n) # control_name \/ ~n.content
               THEN SetFrom(ns, j + 1, control_name, value)
               ELSE IF ts = {}
               THEN SetFrom(InsertAfter(ns, SubEnd(ns, j),
                                <<El(n.depth + 1, "p"), El(n.depth + 2, "r"),
                                  Txt(n.depth + 3, value)>>),
                            j + 1, control_name, value)
               ELSE SetFrom([ns EXCEPT ![Min(ts)].text = value],
                            j + 1, control_name, value)

\* element is the sdtContent of the row clone: the clone without its root.
set_control_value_in_element(clone, control_name, value) ==
    SetFrom(clone, 2, control_name, value)

\* ------------------------------------- duplicate_repeating_section (347-456)
IsRowItem(n) == n.el = "sdt" /\ n.pr /\ n.rsi # "none"

\* Lines 427-430: float() of quantity or unitPrice raises ValueError.
ItemRaises(item) ==
    \/ FloatRaises(Get(item.unitPrice, Num(0)))
    \/ FloatRaises(Get(item.quantity, Num(0)))

\* FillClone with the unit price and the line total exchanged.
FillCloneSwapped(clone, section_name, item) ==
    LET material == PyStr(Get(item.material, Str("")))
        qty == PyStr(Get(item.quantity, Str("")))
        unit == Get(item.unitPrice, Num(0)).n
        total == Get(item.quantity, Num(0)).n * Get(item.unitPrice, Num(0)).n
        c1 == set_control_value_in_element(clone, "Module", material)
        c2 == set_control_value_in_element(c1, "Aantal", qty)
    IN IF section_name = "items1"
       THEN set_control_value_in_element(
                set_control_value_in_element(c2, "éénmalige setupkost", Euro(total)),
                "calctotaalsetup", Euro(unit))
       ELSE set_control_value_in_element(
                set_control_value_in_element(c2, "Jaarlijks", Euro(total)),
                "calctotaaljaarlijks", Euro(unit))

\* Lines 427-439: the four values set in the clone made for item.
FillClone(clone, section_name, item) ==
    LET material == PyStr(Get(item.material, Str("")))
        qty == PyStr(Get(item.quantity, Str("")))
        unit == Get(item.unitPrice, Num(0)).n
        total == Get(item.quantity, Num(0)).n * Get(item.unitPrice, Num(0)).n
        c1 == set_control_value_in_element(clone, "Module", material)
        c2 == set_control_value_in_element(c1, "Aantal", qty)
    IN IF section_name = "items1"
       THEN set_control_value_in_element(
                set_control_value_in_element(c2, "éénmalige setupkost", Euro(unit)),
                "calctotaalsetup", Euro(total))
       ELSE set_control_value_in_element(
                set_control_value_in_element(c2, "Jaarlijks", Euro(unit)),
                "calctotaaljaarlijks", Euro(total))

\* Lines 418-442: the clones appended to the parent, in item order; a
\* template row without sdtContent is skipped for every item.
RECURSIVE Clones(_, _, _, _)
Clones(template, section_name, items, k) ==
    IF k > Len(items) THEN [raised |-> FALSE, rows |-> <<>>, made |-> 0]
    ELSE IF ~template[1].content
    THEN Clones(template, section_name, items, k + 1)
    ELSE IF ItemRaises(items[k])
    THEN [raised |-> TRUE, rows |-> <<>>, made |-> 0]
    ELSE LET rest == Clones(template, section_name, items, k + 1)
         IN [raised |-> rest.raised,
             rows |-> FillClone(template, section_name, items[k]) \o rest.rows,
             made |-> rest.made + 1]

\* Lines 365-374: the first sdt whose tag is section_name; 0 when none.
SectionSdt(ns, section_name) ==
    LET S == {i \in 1..Len(ns) : ns[i].el = "sdt" /\ ns[i].pr
                                 /\ ns[i].tag = section_name}
    IN IF S = {} THEN 0 ELSE Min(S)

\* Lines 387-394: the repeatingSectionItem sdts inside the section.
ItemSdts(ns, sec) == {j \in Desc(ns, sec) : IsRowItem(ns[j])}

\* RemovedRows taking the first repeating item only.
RemovedRowsFirst(ns, parent) ==
    LET rows == {c \in Children(ns, parent) : IsRowItem(ns[c])}
    IN IF rows = {} THEN {} ELSE {Min(rows)}

\* Lines 409-415: the children of the parent that are repeating items, with
\* their subtrees.
RemovedRows(ns, parent) == {c \in Children(ns, parent) : IsRowItem(ns[c])}

\* ET.tostring with a declaration of its own in front of the text.
tostring_declared(ns) ==
    [wf |-> TRUE, decl |-> <<"<?xml version='1.0' encoding='utf-8'?>">>,
     nodes |-> ns]

\* ET.tostring(root, encoding='unicode') (lines 223, 444): the text of the
\* tree, without a declaration.
tostring(ns) == [wf |-> TRUE, decl |-> <<>>, nodes |-> ns]

\* Lines 353-356 and 444-446: the declaration the text began with is put in
\* front of the serialised tree unless that begins with one.
Reserialised(xml, ns) ==
    [tostring(ns) EXCEPT
         !.decl = IF xml.decl # <<>> /\ @ = <<>> THEN <<Head(xml.decl)>> ELSE @]

\* Lines 225-231: a declaration of the serialised tree is removed and the
\* declaration the text began with is put in front.
Declared(xml, ns) ==
    [tostring(ns) EXCEPT
         !.decl = IF xml.decl # <<>>
                  THEN <<Head(xml.decl)>> \o (IF @ # <<>> THEN Tail(@) ELSE <<>>)
                  ELSE @]

\* duplicate_repeating_section returning, after an exception of the cloning,
\* the document as the exception left it: the old rows removed, no row made.
duplicate_repeating_section_partial(xml_content, section_name, items) ==
    LET ns == xml_content.nodes
        unchanged == [xml |-> xml_content, changes |-> 0]
        sec == SectionSdt(ns, section_name)
    IN IF ~xml_content.wf THEN unchanged
       ELSE IF sec = 0 THEN unchanged
       ELSE IF ~ns[sec].content THEN unchanged
       ELSE IF ItemSdts(ns, sec) = {} THEN unchanged
       ELSE LET t == Min(ItemSdts(ns, sec))
                template_parent == Parent(ns, t)
                template == SubSeq(ns, t, SubEnd(ns, t))
                kept == Without(ns, RemovedRows(ns, template_parent))
                made == Clones(template, section_name, items, 1)
            IN IF template_parent = 0 THEN unchanged
               ELSE IF made.raised
               THEN [xml |-> Reserialised(xml_content, kept), changes |-> 0]
               ELSE [xml |-> Reserialised(xml_content,
                                InsertAfter(kept, SubEnd(kept, template_parent),
                                            made.rows)),
                     changes |-> made.made]

duplicate_repeating_section(xml_content, section_name, items) ==
    LET ns == xml_content.nodes
        unchanged == [xml |-> xml_content, changes |-> 0]
        sec == SectionSdt(ns, section_name)
    IN IF ~xml_content.wf THEN unchanged
       ELSE IF sec = 0 THEN unchanged
       ELSE IF ~ns[sec].content THEN unchanged
       ELSE IF ItemSdts(ns, sec) = {} THEN unchanged
       ELSE LET t == Min(ItemSdts(ns, sec))
                template_parent == Parent(ns, t)
                template == SubSeq(ns, t, SubEnd(ns, t))
                kept == Without(ns, RemovedRows(ns, template_parent))
                made == Clones(template, section_name, items, 1)
            IN IF template_parent = 0 THEN unchanged
               ELSE IF made.raised THEN unchanged
               ELSE [xml |-> Reserialised(xml_content,
                                InsertAfter(kept, SubEnd(kept, template_parent),
                                            made.rows)),
                     changes |-> made.made]

\* --------------------------------------- process_repeating_sections (314-345)
\* process_repeating_sections duplicating both sections whatever the lists.
process_repeating_sections_always(xml_content, data) ==
    LET r1 == duplicate_repeating_section(xml_content, "items1",
                                          data.oneTimeCosts)
        r2 == duplicate_repeating_section(r1.xml, "items2", data.recurringCosts)
    IN [xml |-> r2.xml, changes |-> r1.changes + r2.changes]

process_repeating_sections(xml_content, data) ==
    LET r1 == IF data.oneTimeCosts # <<>>
              THEN duplicate_repeating_section(xml_content, "items1",
                                               data.oneTimeCosts)
              ELSE [xml |-> xml_content, changes |-> 0]
        r2 == IF data.recurringCosts # <<>>
              THEN duplicate_repeating_section(r1.xml, "items2",
                                               data.recurringCosts)
              ELSE [xml |-> r1.xml, changes |-> 0]
    IN [xml |-> r2.xml, changes |-> r1.changes + r2.changes]

\* ------------------------------------------------ calculate_values (524-550)
\* The VAT rate, in percent (line 538: total_excl_vat * 0.21).
VatPercent == 21

\* sum(item.get('total', 0) for item in items), in cents.
RECURSIVE SumTotals(_)
SumTotals(items) ==
    IF items = <<>> THEN 0
    ELSE Get(Head(items).total, Num(0)).n + SumTotals(Tail(items))

\* int + str raises TypeError inside sum().
SumRaises(items) ==
    \E k \in 1..Len(items) : Get(items[k].total, Num(0)).k = "str"

\* calculate_values with the VAT taken on the one-time total only.
calculate_values_one_time_vat(data) ==
    LET one_time_total == SumTotals(data.oneTimeCosts)
        recurring_total == SumTotals(data.recurringCosts)
        total_excl_vat == one_time_total + recurring_total
        vat_amount == one_time_total * VatPercent
    IN [raised |-> SumRaises(data.oneTimeCosts) \/ SumRaises(data.recurringCosts),
        one_time_total |-> one_time_total,
        recurring_total |-> recurring_total,
        total_excl_vat |-> total_excl_vat,
        vat_amount |-> vat_amount,
        grand_total |-> total_excl_vat * 100 + vat_amount,
        current_date |-> "dd-mm-yyyy"]

\* Totals in cents; vat_amount and grand_total in hundredths of a cent.
calculate_values(data) ==
    LET one_time_total == SumTotals(data.oneTimeCosts)
        recurring_total == SumTotals(data.recurringCosts)
        total_excl_vat == one_time_total + recurring_total
        vat_amount == total_excl_vat * VatPercent
    IN [raised |-> SumRaises(data.oneTimeCosts) \/ SumRaises(data.recurringCosts),
        one_time_total |-> one_time_total,
        recurring_total |-> recurring_total,
        total_excl_vat |-> total_excl_vat,
        vat_amount |-> vat_amount,
        grand_total |-> total_excl_vat * 100 + vat_amount,
        current_date |-> "dd-mm-yyyy"]

\* ------------------------------------------------ format_items_list (670-686)
\* f"{x:.2f}" of a string raises ValueError.
FmtRaises(v) == v.k = "str"

\* "*" stands for the bullet that starts the line.
ItemLine(item) ==
    "* " \o PyStr(Get(item.material, Str(""))) \o " - Aantal: "
    \o PyStr(Get(item.quantity, Num(0))) \o " x "
    \o Euro(Get(item.unitPrice, Num(0)).n) \o " = "
    \o Euro(Get(item.total, Num(0)).n)

RECURSIVE JoinLines(_)
JoinLines(items) ==
    IF Len(items) = 1 THEN ItemLine(items[1])
    ELSE ItemLine(Head(items)) \o "\n" \o JoinLines(Tail(items))

format_items_list(items) ==
    IF items = <<>> THEN [raised |-> FALSE, v |-> "Geen items"]
    ELSE IF \E k \in 1..Len(items) :
                FmtRaises(Get(items[k].unitPrice, Num(0)))
                \/ FmtRaises(Get(items[k].total, Num(0)))
    THEN [raised |-> TRUE, v |-> ""]
    ELSE [raised |-> FALSE, v |-> JoinLines(items)]

\* ------------------------------------------ build_control_mappings (552-668)
Ok(v) == [raised |-> FALSE, v |-> v]
Raise == [raised |-> TRUE, v |-> ""]

\* quantity * unitPrice written with two decimals: a string operand makes
\* the product or its formatting raise.
TimesEuro(item) ==
    IF Get(item.quantity, Num(0)).k = "str" \/ Get(item.unitPrice, Num(0)).k = "str"
    THEN Raise
    ELSE Ok(Euro(Get(item.quantity, Num(0)).n * Get(item.unitPrice, Num(0)).n))

UnitEuro(item) ==
    IF FmtRaises(Get(item.unitPrice, Num(0))) THEN Raise
    ELSE Ok(Euro(Get(item.unitPrice, Num(0)).n))

\* The value of one configured control.
MappingOf(config, data, calculations) ==
    LET one == data.oneTimeCosts
        rec == data.recurringCosts
    IN CASE config.type = "field" ->
            (CASE config.value = "companyName" -> Ok(PyStr(Get(data.companyName, Str(""))))
               [] config.value = "contactName" -> Ok(PyStr(Get(data.contactName, Str(""))))
               [] config.value = "address" -> Ok(PyStr(Get(data.address, Str(""))))
               [] config.value = "postalCode" -> Ok(PyStr(Get(data.postalCode, Str(""))))
               [] config.value = "city" -> Ok(PyStr(Get(data.city, Str(""))))
               [] config.value = "companyId" -> Ok(PyStr(Get(data.companyId, Str(""))))
               [] config.value = "modulenname" ->
                    IF one # <<>> THEN Ok(PyStr(Get(one[1].material, Str(""))))
                    ELSE Ok("")
               [] config.value = "itemammount" ->
                    IF one # <<>> THEN Ok(PyStr(Get(one[1].quantity, Str(""))))
                    ELSE Ok("")
               [] config.value = "annualmaterialcost" ->
                    IF rec # <<>> THEN UnitEuro(rec[1]) ELSE Ok("")
               [] OTHER -> Ok(""))
         [] config.type = "calculated" ->
            (CASE config.formula = "current_date" -> Ok(calculations.current_date)
               [] config.formula = "sum_one_time_costs" ->
                    Ok(Fmt2(calculations.one_time_total))
               [] config.formula = "sum_recurring_costs" ->
                    Ok(Fmt2(calculations.recurring_total))
               [] config.formula = "recurringandonetimewithoutVAT" ->
                    Ok(Fmt2(calculations.total_excl_vat))
               [] config.formula = "VAT" -> Ok(Fmt2x(calculations.vat_amount))
               [] config.formula = "grandtotal" -> Ok(Fmt2x(calculations.grand_total))
               [] config.formula = "ammounttimespriceonetimematerial" ->
                    IF one # <<>> THEN TimesEuro(one[1]) ELSE Ok("€0.00")
               [] config.formula = "ammounttimespricerecurringmaterial" ->
                    IF rec # <<>> THEN TimesEuro(rec[1]) ELSE Ok("€0.00")
               [] config.value = "totalsetup" ->
                    IF one # <<>> THEN UnitEuro(one[1]) ELSE Ok("€0.00")
               [] OTHER -> Ok(""))
         [] config.type = "list" ->
            (CASE config.value = "oneTimeCosts" -> format_items_list(one)
               [] config.value = "recurringCosts" -> format_items_list(rec)
               [] OTHER -> Ok(""))
         [] config.type = "input" ->
            (IF config.value = "description"
             THEN Ok(PyStr(Get(data.description, Str(""))))
             ELSE Ok(""))
         [] OTHER -> Ok("")

build_control_mappings(controls, data, calculations) ==
    [raised |-> \E c \in DOMAIN controls :
                    MappingOf(controls[c], data, calculations).raised,
     m |-> [c \in DOMAIN controls |-> MappingOf(controls[c], data, calculations).v]]

\* -------------------------------------------- get_contextual_value (242-312)
Value(v) == [raised |-> FALSE, has |-> TRUE, v |-> v]
Lift(r) == [raised |-> r.raised, has |-> TRUE, v |-> r.v]

get_contextual_value(control_name, instance_num, control_mappings, data) ==
    LET one == data.oneTimeCosts
        rec == data.recurringCosts
    IN CASE control_name = "Module" ->
            IF instance_num = 1 /\ one # <<>>
            THEN Value(PyStr(Get(one[1].material, Str(""))))
            ELSE IF instance_num = 2 /\ rec # <<>>
            THEN Value(PyStr(Get(rec[1].material, Str(""))))
            ELSE Value("")
         [] control_name = "Aantal" ->
            IF instance_num = 1 /\ one # <<>>
            THEN Value(PyStr(Get(one[1].quantity, Str(""))))
            ELSE IF instance_num = 2 /\ rec # <<>>
            THEN Value(PyStr(Get(rec[1].quantity, Str(""))))
            ELSE Value("")
         [] control_name = "éénmalige setupkost" ->
            IF instance_num = 1 /\ one # <<>> THEN Lift(UnitEuro(one[1]))
            ELSE Value("€0.00")
         [] control_name = "calctotaalsetup" ->
            IF instance_num = 1 /\ one # <<>> THEN Lift(TimesEuro(one[1]))
            ELSE Value("€0.00")
         [] control_name = "Jaarlijks" ->
            IF instance_num = 2 /\ rec # <<>> THEN Lift(UnitEuro(rec[1]))
            ELSE Value("€0.00")
         [] control_name = "calctotaaljaarlijks" ->
            IF instance_num = 2 /\ rec # <<>> THEN Lift(TimesEuro(rec[1]))
            ELSE Value("€0.00")
         [] OTHER ->
            IF control_name \in DOMAIN control_mappings
            THEN Value(control_mappings[control_name])
            ELSE [raised |-> FALSE, has |-> FALSE, v |-> ""]

\* ------------------------------ process_content_controls_xml (83-240)
row_fields ==
    {"Module", "Aantal", "éénmalige setupkost", "calctotaalsetup",
     "Jaarlijks", "calctotaaljaarlijks"}

\* Lines 146-155: node i or one of its ancestors is an sdt whose sdtPr has a
\* repeatingSectionItem child.
RECURSIVE is_inside_repeating_section(_, _)
is_inside_repeating_section(ns, cur) ==
    IF cur = 0 THEN FALSE
    ELSE IF ns[cur].el = "sdt" /\ ns[cur].pr /\ ns[cur].rsi = "child" THEN TRUE
    ELSE is_inside_repeating_section(ns, Parent(ns, cur))

Count(control_instances, name) ==
    IF name \in DOMAIN control_instances THEN control_instances[name] ELSE 0

\* Counted giving every occurrence the number 1.
CountedOnce(control_instances, name) ==
    [c \in DOMAIN control_instances \cup {name} |->
        IF c = name THEN 1 ELSE control_instances[c]]

\* Lines 183-186: control_instances[control_name] += 1, from 0.
Counted(control_instances, name) ==
    [c \in DOMAIN control_instances \cup {name} |->
        IF c = name THEN Count(control_instances, name) + 1
        ELSE control_instances[c]]

\* Lines 196-206: every <w:t> of the content emptied, the first one set.
Overwrite(ns, ts, value) ==
    [q \in 1..Len(ns) |->
        IF q = Min(ts) THEN [ns[q] EXCEPT !.text = value]
        ELSE IF q \in ts THEN [ns[q] EXCEPT !.text = ""]
        ELSE ns[q]]

\* Lines 157-220: the loop over root.iter(sdt), from node i on.
RECURSIVE StandardFrom(_, _, _, _, _, _)
StandardFrom(ns, from, control_instances, changes_made, control_mappings, data) ==
    IF NextSdt(ns, from) > Len(ns) THEN [nodes |-> ns, changes |-> changes_made]
    ELSE LET i == NextSdt(ns, from)
             n == ns[i]
             control_name == ControlName(n)
             counted == Counted(control_instances, control_name)
             replacement_value ==
                 get_contextual_value(control_name, counted[control_name],
                                      control_mappings, data)
             ts == Texts(ns, i)
         IN IF ~n.pr \/ control_name = ""
            THEN StandardFrom(ns, i + 1, control_instances, changes_made,
                              control_mappings, data)
            ELSE IF is_inside_repeating_section(ns, i) /\ control_name \in row_fields
            THEN StandardFrom(ns, i + 1, control_instances, changes_made,
                              control_mappings, data)
            ELSE IF replacement_value.raised \/ ~replacement_value.has \/ ~n.content
            THEN StandardFrom(ns, i + 1, counted, changes_made,
                              control_mappings, data)
            ELSE IF ts = {}
            THEN StandardFrom(InsertAfter(ns, SubEnd(ns, i),
                                  <<El(n.depth + 1, "p"), El(n.depth + 2, "r"),
                                    Txt(n.depth + 3, replacement_value.v)>>),
                              i + 1, counted, changes_made + 1,
                              control_mappings, data)
            ELSE StandardFrom(Overwrite(ns, ts, replacement_value.v),
                              i + 1, counted, changes_made + 1,
                              control_mappings, data)

\* Lines 93-240: the pass over the named controls, after the cloning pass
\* made repeating_changes changes; a part that does not parse comes back as
\* it is, with 0 changes.
standard_pass(xml_content, repeating_changes, control_mappings, data) ==
    IF ~xml_content.wf THEN [xml |-> xml_content, changes |-> 0]
    ELSE LET r == StandardFrom(xml_content.nodes, 1, <<>>, repeating_changes,
                               control_mappings, data)
         IN [xml |-> Declared(xml_content, r.nodes), changes |-> r.changes]

\* process_content_controls_xml answering a text that does not parse with
\* an empty text and one change.
process_content_controls_xml_blank(xml_content, control_mappings, data) ==
    IF ~xml_content.wf
    THEN [xml |-> [wf |-> FALSE, decl |-> <<>>, nodes |-> <<>>], changes |-> 1]
    ELSE standard_pass(process_repeating_sections(xml_content, data).xml,
                       process_repeating_sections(xml_content, data).changes,
                       control_mappings, data)

\* Lines 83-240: the cloning pass, then the standard pass on its result.
process_content_controls_xml(xml_content, control_mappings, data) ==
    LET rep == process_repeating_sections(xml_content, data)
    IN standard_pass(rep.xml, rep.changes, control_mappings, data)

\* ------------------------------------------------------------- the inputs
\* control_mappings.json, read by __init__ (lines 19-21): two configurations,
\* with and without the list controls items1 and items2.
Field(value) == [type |-> "field", value |-> value, formula |-> ""]
Calculated(formula) == [type |-> "calculated", value |-> "", formula |-> formula]
List(value) == [type |-> "list", value |-> value, formula |-> ""]
Input(value) == [type |-> "input", value |-> value, formula |-> ""]

ControlsPlain ==
    "praktijk" :> Field("companyName") @@ "naam" :> Field("contactName")
    @@ "stad" :> Field("city")
    @@ "beschrijving" :> Input("description")
    @@ "totaaleenmalig" :> Calculated("sum_one_time_costs")
    @@ "totaaljaarlijks" :> Calculated("sum_recurring_costs")
    @@ "total" :> Calculated("recurringandonetimewithoutVAT")
    @@ "vat" :> Calculated("VAT")
    @@ "grandtotal" :> Calculated("grandtotal")

ControlsLists ==
    ControlsPlain @@ "items1" :> List("oneTimeCosts")
    @@ "items2" :> List("recurringCosts")

\* Cost items of a request: amounts in cents.
Item(material, quantity, unitPrice, total) ==
    [material |-> material, quantity |-> quantity, unitPrice |-> unitPrice,
     total |-> total]
ItemSetup == Item(Str("Setup kosten"), Num(1), Num(50000), Num(50000))
ItemModule == Item(Str("Test Module"), Num(3), Num(20000), Num(60000))
ItemBare == Item(Absent, Absent, Num(1999), Absent)
ItemBadPrice == Item(Str("Hardware"), Num(2), Str("abc"), Num(500))
ItemBadTotal == Item(Str("Support"), Num(6), Num(5000), Str("n/a"))

\* The lists of at most n items of S.
RECURSIVE ListsUpTo(_, _)
ListsUpTo(S, n) ==
    IF n = 0 THEN {<<>>}
    ELSE LET shorter == ListsUpTo(S, n - 1)
         IN shorter \cup {Append(l, i) : l \in shorter, i \in S}

OneTimeLists ==
    ListsUpTo({ItemSetup, ItemModule, ItemBare}, MaxOneTime)
    \cup {<<ItemBadPrice>>, <<ItemSetup, ItemBadTotal>>}
RecurringLists ==
    ListsUpTo({ItemModule, ItemBare}, MaxRecurring) \cup {<<ItemBadPrice>>}

Record(one, rec) ==
    [companyName |-> Str("Test Company BV"), contactName |-> Str("Jan Janssen"),
     address |-> Str("Teststraat 123"), postalCode |-> Str("1234AB"),
     city |-> Absent, companyId |-> Str("NL123456789B01"),
     description |-> Absent, oneTimeCosts |-> one, recurringCosts |-> rec]


\* Template parts.  A control: an sdt whose content holds one run per text.
RECURSIVE Runs(_, _)
Runs(d, texts) ==
    IF texts = <<>> THEN <<>>
    ELSE <<El(d, "r"), Txt(d + 1, Head(texts))>> \o Runs(d, Tail(texts))
Ctl(d, alias, tag, texts) ==
    <<Sdt(d, alias, tag, "none", TRUE)>> \o Runs(d + 1, texts)

Totals(d) ==
    Ctl(d, "totaaleenmalig", "", <<"0">>) \o Ctl(d, "", "totaaljaarlijks", <<"0">>)
    \o Ctl(d, "total", "total", <<"0", ",00">>) \o Ctl(d, "vat", "", <<>>)
    \o Ctl(d, "grandtotal", "", <<"0">>)

\* A repeating row of the one-time table and of the recurring table.
Row1(d, rsi, module) ==
    <<Sdt(d, "", "", rsi, TRUE), El(d + 1, "tr")>>
    \o Ctl(d + 2, "Module", "", module) \o Ctl(d + 2, "Aantal", "", <<"1">>)
    \o Ctl(d + 2, "éénmalige setupkost", "", <<"€0">>)
    \o Ctl(d + 2, "calctotaalsetup", "", <<"€0">>)
Row2(d, rsi) ==
    <<Sdt(d, "", "", rsi, TRUE), El(d + 1, "tr")>>
    \o Ctl(d + 2, "", "Module", <<"Module">>) \o Ctl(d + 2, "Aantal", "", <<>>)
    \o Ctl(d + 2, "Jaarlijks", "", <<"€0">>)
    \o Ctl(d + 2, "calctotaaljaarlijks", "", <<"€0">>)

\* The declaration Word writes, and a shorter one.
Declaration == "<?xml version=\"1.0\" encoding=\"UTF-8\" standalone=\"yes\"?>"
ShortDeclaration == "<?xml version=\"1.0\"?>"

Part(ns) ==
    [wf |-> TRUE, decl |-> <<Declaration>>, nodes |-> <<El(0, "body")>> \o ns]

\* The template as Word writes it: one row per section, one text per control.
TplWord ==
    Part(Ctl(1, "praktijk", "praktijk", <<"[praktijk]">>)
         \o <<Sdt(1, "", "items1", "none", TRUE)>> \o Row1(2, "child", <<"Module">>)
         \o <<Sdt(1, "", "items2", "none", TRUE)>> \o Row2(2, "child")
         \o Totals(1))

\* Section containers that go by an alias; a Module placeholder split over
\* two runs; two rows in the first section, between other children.
TplSplit ==
    Part(<<Sdt(1, "Eenmalig", "items1", "none", TRUE), El(2, "p")>>
         \o Row1(2, "child", <<"Mod", "ule">>) \o <<El(2, "p")>>
         \o Row1(2, "child", <<"old">>) \o <<El(2, "p")>>
         \o <<Sdt(1, "Jaarlijks kosten", "items2", "none", TRUE)>> \o Row2(2, "child")
         \o Totals(1))

\* A template row without sdtContent; a section whose row marks itself
\* deeper inside its sdtPr; the shorter declaration.
TplBare ==
    [Part(<<Sdt(1, "", "items1", "none", TRUE), Sdt(2, "", "", "child", FALSE)>>
          \o <<Sdt(1, "", "items2", "none", TRUE)>> \o Row2(2, "deep")
          \o Ctl(1, "praktijk", "", <<"[praktijk]">>))
     EXCEPT !.decl = <<ShortDeclaration>>]

\* A section container without sdtContent, a section without rows, an sdt
\* without sdtPr and a control without sdtContent.
TplEmpty ==
    Part(<<Sdt(1, "", "items1", "none", FALSE)>>
         \o <<Sdt(1, "", "items2", "none", TRUE), El(2, "p")>>
         \o <<SdtNoPr(1), Sdt(1, "total", "", "none", FALSE)>>
         \o Ctl(1, "grandtotal", "", <<"0">>))

\* Controls inside a control; a control whose alias and tag name different
\* controls, its placeholder split over two runs; a control named by its tag
\* for a field the records lack; a control whose alias is not configured;
\* a repeating row whose controls carry an alias and another name as tag.
\* The text begins without a declaration.
TplNested ==
    [Part(<<Sdt(1, "praktijk", "", "none", TRUE), El(2, "p")>>
          \o Runs(3, <<"Aan ">>) \o Ctl(3, "naam", "", <<"[naam]">>)
          \o Ctl(1, "praktijk", "naam", <<"[prak", "tijk]">>)
          \o Ctl(1, "", "stad", <<"[stad]">>)
          \o Ctl(1, "onbekend", "praktijk", <<"[onbekend]">>)
          \o <<Sdt(1, "", "items1", "none", TRUE), Sdt(2, "", "", "child", TRUE),
               El(3, "tr")>>
          \o Ctl(4, "Module", "Aantal", <<"[module]">>)
          \o Ctl(4, "Omschrijving", "Module", <<"[omschrijving]">>)
          \o Ctl(4, "calctotaalsetup", "naam", <<"[totaal]">>))
     EXCEPT !.decl = <<>>]

\* A part that is not well-formed XML.
TplBroken == [wf |-> FALSE, decl |-> <<Declaration>>, nodes |-> <<>>]

\* Two cost tables without repeating sections, their rows in plain
\* controls: the row controls occur up to four times.
TplTable ==
    Part(Row1(1, "none", <<"Module">>) \o Row2(1, "none")
         \o Row2(1, "none") \o Row1(1, "none", <<"Module">>))

\* A part without controls.
TplPlain == Part(<<El(1, "p")>> \o Runs(2, <<"Compufit">>))

\* Header parts: one with a control, one that is not well-formed XML.
HdrNaam == Part(Ctl(1, "naam", "", <<"[naam]">>))

\* The template file: it exists with one of the parts as word/document.xml
\* and one of the headers as word/header1.xml, or it is missing.
Templates ==
    {[exists |-> TRUE, part |-> t, header |-> h] :
         t \in {TplWord, TplSplit, TplBare, TplEmpty, TplNested, TplTable,
                TplPlain, TplBroken},
         h \in {HdrNaam, TplBroken}}
    \cup {[exists |-> FALSE, part |-> TplBroken, header |-> TplBroken]}

\* The entries of the template archive, in the order of infolist(): an
\* entry is its name and its bytes, the text of an XML part or other bytes.
Entry(filename, part, raw) == [filename |-> filename, part |-> part, raw |-> raw]
Archive(t) ==
    <<Entry("[Content_Types].xml", [wf |-> FALSE, decl |-> <<>>, nodes |-> <<>>],
            "types"),
      Entry("word/document.xml", t.part, ""),
      Entry("word/header1.xml", t.header, ""),
      Entry("word/footer1.xml", TplPlain, ""),
      Entry("word/styles.xml", [wf |-> FALSE, decl |-> <<>>, nodes |-> <<>>],
            "styles")>>

\* Lines 50-51: the entries process_word_template looks for controls in.
processed_names ==
    {"word/document.xml", "word/header1.xml", "word/header2.xml",
     "word/header3.xml", "word/footer1.xml", "word/footer2.xml",
     "word/footer3.xml"}

\* Lines 699-771: the cost summary is appended when there are cost items and
\* formatting them does not raise.
SummaryAdded(d) ==
    /\ d.oneTimeCosts # <<>> \/ d.recurringCosts # <<>>
    /\ \A k \in 1..Len(d.oneTimeCosts) :
           ~FmtRaises(Get(d.oneTimeCosts[k].unitPrice, Num(0)))
           /\ ~FmtRaises(Get(d.oneTimeCosts[k].total, Num(0)))
    /\ \A k \in 1..Len(d.recurringCosts) :
           ~FmtRaises(Get(d.recurringCosts[k].unitPrice, Num(0)))
           /\ ~FmtRaises(Get(d.recurringCosts[k].total, Num(0)))

NoXmlPart == [wf |-> FALSE, decl |-> <<>>, nodes |-> <<>>]

\* Line 697: python-docx opens the written archive; it parses the XML parts.
Opens(entries) ==
    \A k \in 1..Len(entries) :
        entries[k].filename \in processed_names => entries[k].part.wf

\* An entry written without its bytes.
WrittenPartEmptied(item, r) == [item EXCEPT !.part = NoXmlPart]

\* Lines 58-66: the modified text is written when controls changed, the
\* bytes of the template otherwise.
WrittenPart(item, r) ==
    IF r.changes > 0 THEN [item EXCEPT !.part = r.xml] ELSE item

\* Lines 47-70: one turn of the loop over the entries.
WrittenEntry(item, mappings, d) ==
    IF item.filename \in processed_names
    THEN WrittenPart(item, process_content_controls_xml(item.part, mappings, d))
    ELSE item

\* The place of word/document.xml in an archive.
DocumentAt(archive) ==
    CHOOSE k \in 1..Len(archive) : archive[k].filename = "word/document.xml"

\* ------------------------------------------------------------ the servers
\* The requests a server is sent in one run.
MaxRequests == 2

\* The disk: files with a name in two parts, the text of word/document.xml
\* and whether a cost summary was appended.
File(stem, ext, part, summary) ==
    [stem |-> stem, ext |-> ext, part |-> part, summary |-> summary]
Exists(files, stem, ext) == \E f \in files : f.stem = stem /\ f.ext = ext
ReadFile(files, stem, ext) == CHOOSE f \in files : f.stem = stem /\ f.ext = ext
WriteFile(files, stem, ext, part, summary) ==
    {f \in files : ~(f.stem = stem /\ f.ext = ext)}
    \cup {File(stem, ext, part, summary)}
Unlink(files, stem, ext) == {f \in files : ~(f.stem = stem /\ f.ext = ext)}

template_file == "standaardofferte Compufit NL"

\* json=test_data in the client: an object is its members in order, a key
\* without a value having no member.
Members(obj, keys) ==
    SelectSeq([i \in 1..Len(keys) |-> [key |-> keys[i], val |-> obj[keys[i]]]],
              LAMBDA m : m.val.k # "none")
ItemKeys == <<"material", "quantity", "unitPrice", "total">>
JsonDumps(d) ==
    [wf |-> TRUE,
     fields |-> Members(d, <<"companyName", "contactName", "address",
                              "postalCode", "city", "companyId",
                              "description">>),
     oneTimeCosts |-> [k \in 1..Len(d.oneTimeCosts) |->
                          Members(d.oneTimeCosts[k], ItemKeys)],
     recurringCosts |-> [k \in 1..Len(d.recurringCosts) |->
                            Members(d.recurringCosts[k], ItemKeys)]]
Malformed ==
    [wf |-> FALSE, fields |-> <<>>, oneTimeCosts |-> <<>>, recurringCosts |-> <<>>]

\* json.loads (line 40): the last member of a key gives its value; the code
\* reads missing keys with dict.get.
Member(members, key) ==
    LET at == {i \in 1..Len(members) : members[i].key = key}
    IN IF at = {} THEN Absent ELSE members[Max(at)].val
LoadItem(members) ==
    Item(Member(members, "material"), Member(members, "quantity"),
         Member(members, "unitPrice"), Member(members, "total"))
JsonLoads(body) ==
    [raised |-> ~body.wf,
     data |-> [companyName |-> Member(body.fields, "companyName"),
               contactName |-> Member(body.fields, "contactName"),
               address |-> Member(body.fields, "address"),
               postalCode |-> Member(body.fields, "postalCode"),
               city |-> Member(body.fields, "city"),
               companyId |-> Member(body.fields, "companyId"),
               description |-> Member(body.fields, "description"),
               oneTimeCosts |-> [k \in 1..Len(body.oneTimeCosts) |->
                                    LoadItem(body.oneTimeCosts[k])],
               recurringCosts |-> [k \in 1..Len(body.recurringCosts) |->
                                      LoadItem(body.recurringCosts[k])]]]

\* The records the clients send: both cost lists; a 'total' that is not a
\* number; no companyName.
RecordBoth == Record(<<ItemSetup>>, <<ItemModule>>)
RecordBadTotal == Record(<<ItemSetup, ItemBadTotal>>, <<>>)
RecordAnonymous ==
    [Record(<<ItemModule>>, <<>>) EXCEPT !.companyName = Absent]
Request(path, body) ==
    [method |-> "POST", path |-> path, body |-> body, length |-> TRUE]
\* The preflight request a browser sends before the POST.
Preflight(path) ==
    [method |-> "OPTIONS", path |-> path, body |-> Malformed, length |-> FALSE]
ClientRecords == {RecordBoth, RecordBadTotal, RecordAnonymous}
RequestKinds ==
    {Request("/generate-quotation", JsonDumps(d)) : d \in ClientRecords}
    \cup {Request("/generate-quotation", Malformed),
          [Request("/generate-quotation", JsonDumps(RecordBoth))
              EXCEPT !.length = FALSE],
          Request("/other", JsonDumps(RecordBoth)),
          Preflight("/generate-quotation")}

\* datetime.now().strftime('%Y%m%d_%H%M%S'): the seconds the clock shows.
Timestamps == <<"20250101_120000", "20250101_120001">>

\* .replace(' ', '_').replace('/', '_') on the company names of the records.
SafeName(name) ==
    CASE name = "Test Company BV" -> "Test_Company_BV"
      [] OTHER -> name

\* process_word_template (25-81) as one call on the disk: lines 58-77, the
\* output written from the processed part r.
Written(files, output_path, part, r, d) ==
    [raised |-> FALSE, ret |-> "True",
     files |-> WriteFile(files, output_path, ".docx",
                         IF r.changes > 0 THEN r.xml ELSE part,
                         SummaryAdded(d))]

\* Lines 36-57, with the control mappings built.
Mapped(files, template_path, d, output_path, built) ==
    IF built.raised THEN [raised |-> TRUE, ret |-> "none", files |-> files]
    ELSE IF ~Exists(files, template_path, ".docx")
    THEN [raised |-> FALSE, ret |-> "False", files |-> files]
    ELSE Written(files, output_path,
                 ReadFile(files, template_path, ".docx").part,
                 process_content_controls_xml(
                     ReadFile(files, template_path, ".docx").part, built.m, d),
                 d)

process_word_template(config, files, template_path, d, output_path) ==
    IF calculate_values(d).raised
    THEN [raised |-> TRUE, ret |-> "none", files |-> files]
    ELSE Mapped(files, template_path, d, output_path,
                build_control_mappings(config, d, calculate_values(d)))

NoName == [stem |-> "", ext |-> ""]
Failure(files) == [success |-> FALSE, filename |-> NoName, files |-> files]

\* Lines 105-107: the name of the output.
Filename(d, now) ==
    "Offerte_" \o SafeName(Get(d.companyName, Str("unknown")).s) \o "_" \o now

\* Created reporting success whatever the processor did.
CreatedAlways(p, filename) ==
    [success |-> TRUE, filename |-> [stem |-> filename, ext |-> ".docx"],
     files |-> p.files]

\* Lines 113-126: the result made from what the processor did; an exception
\* of the processor is caught here.
Created(p, filename) ==
    IF p.raised \/ p.ret # "True" THEN Failure(p.files)
    ELSE [success |-> TRUE, filename |-> [stem |-> filename, ext |-> ".docx"],
          files |-> p.files]

\* create_quotation_document with the two cost lists exchanged.
create_quotation_document_exchanged(config, files, d, now) ==
    IF ~Exists(files, template_file, ".docx") THEN Failure(files)
    ELSE Created(process_word_template(config, files, template_file,
                     [d EXCEPT !.oneTimeCosts = d.recurringCosts,
                               !.recurringCosts = d.oneTimeCosts],
                     Filename(d, now)),
                 Filename(d, now))

\* create_quotation_document of final_quotation_server (94-126) and of
\* unified_server (125-157): the same code.
create_quotation_document(config, files, d, now) ==
    IF ~Exists(files, template_file, ".docx") THEN Failure(files)
    ELSE Created(process_word_template(config, files, template_file, d,
                                       Filename(d, now)),
                 Filename(d, now))

\* RobustTemplateProcessor.process_docx_template (182-256): a backup of the
\* input is made when there is none, and the output is written.  The
\* templates here hold no {tags} for fix_xml_content to rewrite.
process_docx_template(files, input_file, output_file) ==
    LET input == ReadFile(files, input_file, ".docx")
        backed == IF Exists(files, input_file \o "_backup", ".docx") THEN files
                  ELSE WriteFile(files, input_file \o "_backup", ".docx",
                                 input.part, input.summary)
    IN WriteFile(backed, output_file, ".docx", input.part, input.summary)

\* fill_template_with_python (112-189): None when the totals cannot be
\* summed or an amount cannot be formatted.
FillRaises(d) ==
    \/ SumRaises(d.oneTimeCosts) \/ SumRaises(d.recurringCosts)
    \/ \E k \in 1..Len(d.oneTimeCosts) :
           \/ FmtRaises(Get(d.oneTimeCosts[k].unitPrice, Num(0)))
           \/ FmtRaises(Get(d.oneTimeCosts[k].total, Num(0)))
    \/ \E k \in 1..Len(d.recurringCosts) :
           \/ FmtRaises(Get(d.recurringCosts[k].unitPrice, Num(0)))
           \/ FmtRaises(Get(d.recurringCosts[k].total, Num(0)))

\* generate_quotation_pdf (70-110); temp names the NamedTemporaryFile.
generate_quotation_pdf(files, d, now, temp) ==
    IF ~Exists(files, template_file, ".docx") THEN Failure(files)
    ELSE LET created == WriteFile(files, temp, ".docx", NoXmlPart, FALSE)
             processed == process_docx_template(created, template_file, temp)
             output_path == "quotation_"
                                \o SafeName(Get(d.companyName, Str("unknown")).s)
                                \o "_" \o now
             filled == WriteFile(processed, output_path, ".docx",
                                 ReadFile(processed, temp, ".docx").part,
                                 d.oneTimeCosts # <<>> \/ d.recurringCosts # <<>>)
         IN IF FillRaises(d) THEN Failure(processed)
            ELSE [success |-> TRUE,
                  filename |-> [stem |-> output_path, ext |-> ".docx"],
                  files |-> Unlink(filled, temp, ".docx")]

\* do_POST up to the response (lines 34-45 of the three servers): the
\* status to send and what was generated.
NoResult == [status |-> 0, filename |-> NoName, calls |-> 0]
Outcome(result) ==
    [status |-> IF result.success THEN 200 ELSE 500,
     filename |-> result.filename, files |-> result.files]
Handled(kind, config, files, request, now, temp) ==
    IF kind = "static"
    THEN [status |-> 501, filename |-> NoName, files |-> files]
    ELSE IF request.path # "/generate-quotation"
    THEN [status |-> 404, filename |-> NoName, files |-> files]
    ELSE IF ~request.length \/ JsonLoads(request.body).raised
    THEN [status |-> 500, filename |-> NoName, files |-> files]
    ELSE IF kind = "enhanced"
    THEN Outcome(generate_quotation_pdf(files, JsonLoads(request.body).data,
                                        now, temp))
    ELSE Outcome(create_quotation_document(config, files,
                                           JsonLoads(request.body).data, now))

\* Calls counting a second call after a generation that failed.
CallsRetrying(kind, files, request, status) ==
    IF kind \in {"final", "unified"} /\ request.path = "/generate-quotation"
       /\ request.length /\ ~JsonLoads(request.body).raised
       /\ Exists(files, template_file, ".docx")
    THEN (IF status = 200 THEN 1 ELSE 2)
    ELSE 0

\* The calls of process_word_template one do_POST makes: the one of
\* create_quotation_document (final_quotation_server line 114,
\* unified_server line 145), reached with the body read and parsed and the
\* template on disk; enhanced_quotation_generator and server.py make none.
Calls(kind, files, request, status) ==
    IF kind \in {"final", "unified"} /\ request.path = "/generate-quotation"
       /\ request.length /\ ~JsonLoads(request.body).raised
       /\ Exists(files, template_file, ".docx")
    THEN 1
    ELSE 0

\* The headers every handler's end_headers adds (lines 20-25 of
\* final_quotation_server and unified_server, 13-17 of server.py, 23-28 of
\* enhanced_quotation_generator).
Header(name, value) == [name |-> name, value |-> value]
CorsHeaders ==
    {Header("Access-Control-Allow-Origin", "*"),
     Header("Access-Control-Allow-Methods", "GET, POST, OPTIONS"),
     Header("Access-Control-Allow-Headers", "Content-Type")}

\* end_headers of the base class: the headers sent so far go out as they are.
end_headers_base(headers) == headers

\* end_headers of the handlers: the three headers, then the base class.
end_headers(headers) == headers \cup CorsHeaders

\* send_error of the base class: the status line, its own headers, then
\* self.end_headers().
send_error(code) ==
    end_headers({Header("Content-Type", "text/html;charset=utf-8"),
                 Header("Connection", "close")})

\* The JSON body of the answer: final_quotation_server 47-58, unified_server
\* 47-59, enhanced_quotation_generator 50-60; send_error otherwise.
NoResponse ==
    [status |-> 0, success |-> FALSE, filename |-> NoName,
     download_url |-> NoName, headers |-> {}]
Response(kind, result) ==
    IF result.status # 200
    THEN [NoResponse EXCEPT !.status = result.status,
                            !.headers = send_error(result.status)]
    ELSE [status |-> 200, success |-> TRUE,
          filename |-> IF kind = "unified"
                       THEN [stem |-> result.filename.stem, ext |-> ".pdf"]
                       ELSE result.filename,
          download_url |-> IF kind = "enhanced" THEN NoName ELSE result.filename,
          headers |-> end_headers({Header("Content-type", "application/json")})]

\* do_OPTIONS: send_response(200), end_headers().
Preflighted ==
    [NoResponse EXCEPT !.status = 200, !.headers = end_headers({})]

\* ---------------------------------------------------------------- do_GET
\* GET requests: /download/<name> and a static file; path is what the
\* handler tests with startswith, file the rest of the path.
Name(stem, ext) == [stem |-> stem, ext |-> ext]
DownloadRequest(name) == [method |-> "GET", path |-> "/download/", file |-> name]

\* The quotation generated for RecordBoth at the first second, the PDF made
\* from it, and the page the servers serve.
Quotation == Name(Filename(RecordBoth, Timestamps[1]), ".docx")
IndexPage == Name("index", ".html")

\* A record whose company name has a letter outside ASCII, and its
\* quotation.
RecordAccent ==
    [Record(<<ItemModule>>, <<>>) EXCEPT !.companyName = Str("Café")]
QuotationAccent == Name(Filename(RecordAccent, Timestamps[1]), ".docx")

\* The request target a client sends for a download_url: an HTTP client
\* percent-encodes it (urllib.parse.quote, a browser's fetch), the bytes of
\* é becoming %C3%A9; the names of the other quotations are left as they
\* are.  The handlers take self.path as it was sent (line 72).
quote(name) ==
    IF name = QuotationAccent
    THEN Name("Offerte_Caf%C3%A9_" \o Timestamps[1], ".docx")
    ELSE name

\* The requests of a run of downloads: the download_url of a quotation is
\* requested as a client sends it.
DownloadKinds ==
    {Request("/generate-quotation", JsonDumps(RecordBoth)),
     Request("/generate-quotation", JsonDumps(RecordAccent)),
     Preflight("/generate-quotation"),
     DownloadRequest(quote(Quotation)), DownloadRequest(quote(QuotationAccent)),
     DownloadRequest(Name(Quotation.stem, ".pdf")),
     DownloadRequest(IndexPage),
     [method |-> "GET", path |-> "/", file |-> IndexPage]}

\* The downloads a server is sent in one run.
MaxDownloads == 3

\* docx2pdf.convert(filename, pdf_filename) that succeeds: the PDF of the
\* document is written beside it.
convert(files, stem) ==
    WriteFile(files, stem, ".pdf", ReadFile(files, stem, ".docx").part,
              ReadFile(files, stem, ".docx").summary)

\* What do_GET did: the statuses of its send_response and send_error calls
\* in order, the headers of the first, the file whose bytes it wrote to the
\* response, whether convert was called and succeeded, the disk, and the
\* files its clean-up will remove.
Got(statuses, type, sent, conv, files, cleanup) ==
    [statuses |-> statuses,
     headers |-> IF Head(statuses) = 200
                 THEN end_headers({Header("Content-Type", type)})
                 ELSE send_error(Head(statuses)),
     sent |-> sent, conv |-> conv, files |-> files, cleanup |-> cleanup]

\* SimpleHTTPRequestHandler.do_GET: the file at the path, 404 when there is
\* none; no server keeps a directory named download.
static_do_GET(files, request) ==
    IF request.path = "/" /\ Exists(files, request.file.stem, request.file.ext)
    THEN Got(<<200>>, "text/html", request.file, "none", files, {})
    ELSE Got(<<404>>, "", NoName, "none", files, {})

DocxType ==
    "application/vnd.openxmlformats-officedocument.wordprocessingml.document"

\* do_GET of final_quotation_server (68-92); up: the client is still
\* connected when the bytes are written (line 81 raises when it is not, and
\* lines 85-87 call send_error(500)).
final_do_GET(files, request, up) ==
    IF request.path # "/download/" THEN static_do_GET(files, request)
    ELSE IF Exists(files, request.file.stem, request.file.ext)
            /\ request.file.ext = ".docx"
    THEN (IF up THEN Got(<<200>>, DocxType, request.file, "none", files, {})
          ELSE Got(<<200, 500>>, DocxType, NoName, "none", files, {}))
    ELSE Got(<<404>>, "", NoName, "none", files, {})

\* unified_do_GET removing the .docx after the fallback has sent it.
unified_do_GET_cleaning(files, request, converts, up) ==
    IF request.path # "/download/" THEN static_do_GET(files, request)
    ELSE IF Exists(files, request.file.stem, request.file.ext)
            /\ request.file.ext = ".docx"
    THEN (IF converts
          THEN (IF up
                THEN Got(<<200>>, "application/pdf",
                         Name(request.file.stem, ".pdf"), "ok",
                         convert(files, request.file.stem),
                         {request.file, Name(request.file.stem, ".pdf")})
                ELSE Got(<<200, 200, 500>>, "application/pdf", NoName, "ok",
                         convert(files, request.file.stem), {}))
          ELSE (IF up
                THEN Got(<<200>>, DocxType, request.file, "failed", files,
                         {request.file})
                ELSE Got(<<200, 500>>, DocxType, NoName, "failed", files, {})))
    ELSE Got(<<404>>, "", NoName, "none", files, {})

\* do_GET of unified_server (69-123) up to the clean-up; converts: convert
\* (line 80) returns, it raises otherwise; up: the client is still connected
\* when bytes are written.  With the PDF made and the client gone line 90
\* raises, the fallback of lines 105-112 raises as well and line 118 calls
\* send_error(500); the files stay.
unified_do_GET(files, request, converts, up) ==
    IF request.path # "/download/" THEN static_do_GET(files, request)
    ELSE IF Exists(files, request.file.stem, request.file.ext)
            /\ request.file.ext = ".docx"
    THEN (IF converts
          THEN (IF up
                THEN Got(<<200>>, "application/pdf",
                         Name(request.file.stem, ".pdf"), "ok",
                         convert(files, request.file.stem),
                         {request.file, Name(request.file.stem, ".pdf")})
                ELSE Got(<<200, 200, 500>>, "application/pdf", NoName, "ok",
                         convert(files, request.file.stem), {}))
          ELSE (IF up
                THEN Got(<<200>>, DocxType, request.file, "failed", files, {})
                ELSE Got(<<200, 500>>, DocxType, NoName, "failed", files, {})))
    ELSE Got(<<404>>, "", NoName, "none", files, {})

\* ServerBusy of a server that hands each connection to a thread of its own.
ServerBusyNever(c) == FALSE

\* socketserver.TCPServer.serve_forever: the next connection is accepted when
\* the handler of the previous one has returned and the connection is shut.
ServerBusy(c) ==
    \E r \in DOMAIN c :
        c[r].pc \in {"accepted", "generated", "downloaded", "responded"}

\* ------------------------------------------------------------------ state
VARIABLES
    controls,          \* self.controls, from control_mappings.json
    template,          \* the template file
    data,              \* the input record
    pc,                \* where process_word_template stands
    calculations,      \* the result of calculate_values
    control_mappings,  \* the result of build_control_mappings
    xml_content,       \* the text of word/document.xml being processed
    changes_made,      \* its counter of changes
    cloned,            \* what process_repeating_sections returned
    output,            \* word/document.xml as written to output_path
    ret,               \* the value process_word_template returned
    call,              \* a direct call of duplicate_repeating_section
    server,            \* which server program runs
    disk,              \* the files of its working directory
    conns,             \* the connections: request, handler position, answer
    clock              \* the second the clock shows, in Timestamps

vars ==
    <<controls, template, data, pc, calculations, control_mappings,
      xml_content, changes_made, cloned, output, ret, call,
      server, disk, conns, clock>>

procVars ==
    <<calculations, control_mappings, xml_content, changes_made, cloned,
      output, ret, call, pc, data>>

NoCall ==
    [section_name |-> "", items |-> <<>>,
     result |-> [xml |-> NoXmlPart, changes |-> 0]]

Init ==
    /\ controls \in {ControlsPlain, ControlsLists}
    /\ template \in Templates
    /\ data \in {Record(one, rec) : one \in OneTimeLists, rec \in RecurringLists}
    /\ pc = "start"
    /\ calculations = calculate_values(Record(<<>>, <<>>))
    /\ control_mappings = <<>>
    /\ xml_content = NoXmlPart
    /\ changes_made = 0
    /\ cloned = [xml |-> NoXmlPart, changes |-> 0]
    /\ output = [written |-> FALSE, part |-> NoXmlPart, summary |-> FALSE,
                 entries |-> <<>>]
    /\ ret = "none"
    /\ call = NoCall
    /\ server = "none"
    /\ disk = {}
    /\ conns = <<>>
    /\ clock = 1

\* Line 31, outside the try block: an exception leaves process_word_template.
Calculate ==
    /\ pc = "start"
    /\ calculations' = calculate_values(data)
    /\ pc' = IF calculations'.raised THEN "raised" ELSE "calculated"
    /\ UNCHANGED <<controls, template, data, control_mappings, xml_content,
                   changes_made, cloned, output, ret, call,
                   server, disk, conns, clock>>

\* Line 34, outside the try block as well.
BuildMappings ==
    /\ pc = "calculated"
    /\ LET built == build_control_mappings(controls, data, calculations)
       IN /\ control_mappings' = built.m
          /\ pc' = IF built.raised THEN "raised" ELSE "mapped"
    /\ UNCHANGED <<controls, template, data, calculations, xml_content,
                   changes_made, cloned, output, ret, call,
                   server, disk, conns, clock>>

\* Lines 36-45: a missing template makes shutil.copy2 raise inside the try
\* block, and the call returns False (lines 79-81).  Otherwise the two
\* archives are opened.
CopyTemplate ==
    /\ pc = "mapped"
    /\ IF template.exists
       THEN pc' = "opened" /\ ret' = ret
       ELSE pc' = "done" /\ ret' = "False"
    /\ UNCHANGED <<controls, template, data, calculations, control_mappings,
                   xml_content, changes_made, cloned, output, call,
                   server, disk, conns, clock>>

\* Lines 47-55: the loop reaches word/document.xml and decodes its bytes.
ReadDocument ==
    /\ pc = "opened"
    /\ Len(output.entries) + 1 = DocumentAt(Archive(template))
    /\ xml_content' = template.part
    /\ pc' = "copied"
    /\ UNCHANGED <<controls, template, data, calculations, control_mappings,
                   changes_made, cloned, output, ret, call,
                   server, disk, conns, clock>>

\* Lines 89-91: the cloning pass of process_content_controls_xml.
CloningPass ==
    /\ pc = "copied"
    /\ cloned' = process_repeating_sections(xml_content, data)
    /\ xml_content' = cloned'.xml
    /\ changes_made' = cloned'.changes
    /\ pc' = "cloned"
    /\ UNCHANGED <<controls, template, data, calculations, control_mappings,
                   output, ret, call,
                   server, disk, conns, clock>>

\* Lines 93-240: the standard control pass.
StandardPass ==
    /\ pc = "cloned"
    /\ LET r == standard_pass(xml_content, changes_made, control_mappings, data)
       IN /\ xml_content' = r.xml
          /\ changes_made' = r.changes
    /\ pc' = "passed"
    /\ UNCHANGED <<controls, template, data, calculations, control_mappings,
                   cloned, output, ret, call,
                   server, disk, conns, clock>>

\* Lines 58-63: word/document.xml is written, the modified text when
\* changes were made, the original bytes otherwise.
WriteOutput ==
    /\ pc = "passed"
    /\ \E item \in {Archive(template)[DocumentAt(Archive(template))]} :
           \E w \in {WrittenPart(item, [xml |-> xml_content,
                                        changes |-> changes_made])} :
               output' = [written |-> TRUE, part |-> w.part, summary |-> FALSE,
                          entries |-> Append(output.entries, w)]
    /\ pc' = "written"
    /\ UNCHANGED <<controls, template, data, calculations, control_mappings,
                   xml_content, changes_made, cloned, ret, call,
                   server, disk, conns, clock>>

\* Lines 47-70: another entry of the archive goes through the loop.
NextEntry ==
    /\ pc \in {"opened", "written"}
    /\ Len(output.entries) < Len(Archive(template))
    /\ Len(output.entries) + 1 # DocumentAt(Archive(template))
    /\ \E w \in {WrittenEntry(Archive(template)[Len(output.entries) + 1],
                               control_mappings, data)} :
           output' = [output EXCEPT !.entries = Append(output.entries, w)]
    /\ UNCHANGED <<controls, template, data, calculations, control_mappings,
                   xml_content, changes_made, cloned, ret, call, pc,
                   server, disk, conns, clock>>

\* Lines 72-77: the cost summary is appended to the written archive, then
\* process_word_template returns True.
AddCostSummary ==
    /\ pc = "written"
    /\ Len(output.entries) = Len(Archive(template))
    /\ output' = [output EXCEPT
                      !.summary = SummaryAdded(data) /\ Opens(output.entries)]
    /\ ret' = "True"
    /\ pc' = "done"
    /\ UNCHANGED <<controls, template, data, calculations, control_mappings,
                   xml_content, changes_made, cloned, call,
                   server, disk, conns, clock>>

\* duplicate_repeating_section called on the template part with a section
\* name and a list of items, the empty list included.
DirectCall ==
    /\ pc = "start"
    /\ template.exists
    /\ \E section_name \in {"items1", "items2"},
          items \in {data.oneTimeCosts, data.recurringCosts, <<>>} :
          call' = [section_name |-> section_name, items |-> items,
                   result |-> duplicate_repeating_section(template.part,
                                                          section_name, items)]
    /\ pc' = "called"
    /\ UNCHANGED <<controls, template, data, calculations, control_mappings,
                   xml_content, changes_made, cloned, output, ret,
                   server, disk, conns, clock>>

Next ==
    \/ Calculate
    \/ BuildMappings
    \/ CopyTemplate
    \/ ReadDocument
    \/ CloningPass
    \/ StandardPass
    \/ WriteOutput
    \/ NextEntry
    \/ AddCostSummary
    \/ DirectCall

Spec == Init /\ [][Next]_vars

\* ------------------------------------------------------- the server at work
InitServer ==
    /\ server \in {"final", "unified", "enhanced", "static"}
    /\ controls = ControlsLists
    /\ template \in {[exists |-> TRUE, part |-> TplWord],
                    [exists |-> TRUE, part |-> TplSplit],
                    [exists |-> FALSE, part |-> TplBroken]}
    /\ disk = IF template.exists
              THEN {File(template_file, ".docx", template.part, FALSE)}
              ELSE {}
    /\ conns \in [1..MaxRequests ->
                    {[pc |-> "waiting", request |-> q, result |-> NoResult,
                      response |-> NoResponse] :
                         q \in RequestKinds \cup {DownloadRequest(Quotation)}}]
    /\ clock = 1
    /\ data = Record(<<>>, <<>>)
    /\ pc = "serving"
    /\ calculations = calculate_values(Record(<<>>, <<>>))
    /\ control_mappings = <<>>
    /\ xml_content = NoXmlPart
    /\ changes_made = 0
    /\ cloned = [xml |-> NoXmlPart, changes |-> 0]
    /\ output = [written |-> FALSE, part |-> NoXmlPart, summary |-> FALSE,
                 entries |-> <<>>]
    /\ ret = "none"
    /\ call = NoCall

\* get_request: the server takes the next connection, the one that has
\* waited longest in the listen queue.
Accept(r) ==
    /\ ~ServerBusy(conns)
    /\ conns[r].pc = "waiting"
    /\ \A q \in 1..(r - 1) : conns[q].pc # "waiting"
    /\ conns' = [conns EXCEPT ![r].pc = "accepted"]
    /\ UNCHANGED <<server, disk, clock, controls, template, procVars>>

\* do_POST reads the body and generates the quotation at the second the
\* clock then shows.
Generate(r) ==
    /\ conns[r].pc = "accepted"
    /\ conns[r].request.method = "POST"
    /\ \E now \in clock..Len(Timestamps) :
          \E h \in {Handled(server, controls, disk, conns[r].request,
                             Timestamps[now], "tmp" \o ToString(r))} :
             /\ clock' = now
             /\ disk' = h.files
             /\ conns' = [conns EXCEPT
                             ![r].pc = "generated",
                             ![r].result =
                                 [status |-> h.status,
                                  filename |-> h.filename,
                                  calls |-> Calls(server, disk, conns[r].request,
                                                  h.status)]]
    /\ UNCHANGED <<server, controls, template, procVars>>

\* do_OPTIONS answers a preflight request.
do_OPTIONS(r) ==
    /\ conns[r].pc = "accepted"
    /\ conns[r].request.method = "OPTIONS"
    /\ conns' = [conns EXCEPT ![r].pc = "responded",
                              ![r].response = Preflighted]
    /\ UNCHANGED <<server, disk, clock, controls, template, procVars>>

\* do_GET of the server that runs, up to its clean-up: the conversion and
\* the response; enhanced_quotation_generator and server.py have the do_GET
\* of the base class.
do_GET(r) ==
    /\ conns[r].pc = "accepted"
    /\ conns[r].request.method = "GET"
    /\ \E converts, up \in BOOLEAN :
          \E g \in {CASE server = "final" ->
                            final_do_GET(disk, conns[r].request, up)
                       [] server = "unified" ->
                            unified_do_GET(disk, conns[r].request, converts, up)
                       [] OTHER -> static_do_GET(disk, conns[r].request)} :
             /\ disk' = g.files
             /\ conns' = [conns EXCEPT
                             ![r].pc = IF g.cleanup = {} THEN "responded"
                                       ELSE "downloaded",
                             ![r].result =
                                 [status |-> Head(g.statuses),
                                  filename |-> g.sent, calls |-> 0,
                                  statuses |-> g.statuses, conv |-> g.conv,
                                  cleanup |-> g.cleanup],
                             ![r].response =
                                 [NoResponse EXCEPT !.status = Head(g.statuses),
                                                    !.filename = g.sent,
                                                    !.headers = g.headers]]
    /\ UNCHANGED <<server, clock, controls, template, procVars>>

\* Lines 94-100 of unified_server: the files are removed after the download.
CleanUp(r) ==
    /\ conns[r].pc = "downloaded"
    /\ disk' = {f \in disk : Name(f.stem, f.ext) \notin conns[r].result.cleanup}
    /\ conns' = [conns EXCEPT ![r].pc = "responded"]
    /\ UNCHANGED <<server, clock, controls, template, procVars>>

\* do_POST sends the answer.
Respond(r) ==
    /\ conns[r].pc = "generated"
    /\ conns' = [conns EXCEPT ![r].pc = "responded",
                              ![r].response = Response(server, conns[r].result)]
    /\ UNCHANGED <<server, disk, clock, controls, template, procVars>>

\* shutdown_request: the handler has returned.
Close(r) ==
    /\ conns[r].pc = "responded"
    /\ conns' = [conns EXCEPT ![r].pc = "closed"]
    /\ UNCHANGED <<server, disk, clock, controls, template, procVars>>

NextServer ==
    \/ \E r \in DOMAIN conns : Accept(r)
    \/ \E r \in DOMAIN conns : Generate(r)
    \/ \E r \in DOMAIN conns : do_OPTIONS(r)
    \/ \E r \in DOMAIN conns : do_GET(r)
    \/ \E r \in DOMAIN conns : CleanUp(r)
    \/ \E r \in DOMAIN conns : Respond(r)
    \/ \E r \in DOMAIN conns : Close(r)

SpecServer == InitServer /\ [][NextServer]_vars

\* ------------------------------------------------- the server and downloads
\* final_quotation_server or unified_server with the template and the page
\* installed, sent a run of POSTs and downloads.
InitDownload ==
    /\ server \in {"final", "unified"}
    /\ controls = ControlsLists
    /\ template = [exists |-> TRUE, part |-> TplWord]
    /\ disk = {File(template_file, ".docx", template.part, FALSE),
               File(IndexPage.stem, IndexPage.ext, NoXmlPart, FALSE)}
    /\ conns \in [1..MaxDownloads ->
                    {[pc |-> "waiting", request |-> q, result |-> NoResult,
                      response |-> NoResponse] : q \in DownloadKinds}]
    /\ clock = 1
    /\ data = Record(<<>>, <<>>)
    /\ pc = "serving"
    /\ calculations = calculate_values(Record(<<>>, <<>>))
    /\ control_mappings = <<>>
    /\ xml_content = NoXmlPart
    /\ changes_made = 0
    /\ cloned = [xml |-> NoXmlPart, changes |-> 0]
    /\ output = [written |-> FALSE, part |-> NoXmlPart, summary |-> FALSE,
                 entries |-> <<>>]
    /\ ret = "none"
    /\ call = NoCall

SpecDownload == InitDownload /\ [][NextServer]_vars

\* ================================================================= claims
\* The k-th smallest index of S.
RECURSIVE Nth(_, _)
Nth(S, k) == IF k = 1 THEN Min(S) ELSE Nth(S \ {Min(S)}, k - 1)

\* The sdt elements of the subtree of i, without their text.
Skeleton(ns, i) ==
    SelectSeq(SubSeq(ns, i, SubEnd(ns, i)), LAMBDA n : n.el = "sdt")

\* The text of the first <w:t> inside the content of sdt j; "" when none.
FirstText(ns, j) == IF Texts(ns, j) = {} THEN "" ELSE ns[Min(Texts(ns, j))].text

\* The direct call: the part before, the section container, the first row
\* item in it, that row's parent, and the part after.
Before == template.part.nodes
After == call.result.xml.nodes
CallSection == SectionSdt(Before, call.section_name)
CallHasRow ==
    /\ pc = "called" /\ template.part.wf
    /\ CallSection # 0 /\ Before[CallSection].content
    /\ ItemSdts(Before, CallSection) # {}
CallTemplateRow == Min(ItemSdts(Before, CallSection))
CallParent == Parent(Before, CallTemplateRow)
RowsBefore == {c \in Children(Before, CallParent) : IsRowItem(Before[c])}
RowsAfter == {c \in Children(After, CallParent) : IsRowItem(After[c])}

\* What the claims say a row made for item holds in the control named name.
PriceName(section_name) ==
    IF section_name = "items1" THEN "éénmalige setupkost" ELSE "Jaarlijks"
TotalName(section_name) ==
    IF section_name = "items1" THEN "calctotaalsetup" ELSE "calctotaaljaarlijks"
RowNames(section_name) ==
    {"Module", "Aantal", PriceName(section_name), TotalName(section_name)}
Expected(name, section_name, item) ==
    CASE name = "Module" -> PyStr(Get(item.material, Str("")))
      [] name = "Aantal" -> PyStr(Get(item.quantity, Str("")))
      [] name = PriceName(section_name) ->
            "€" \o Fmt2(Get(item.unitPrice, Num(0)).n)
      [] OTHER ->
            "€" \o Fmt2(Get(item.quantity, Num(0)).n * Get(item.unitPrice, Num(0)).n)

\* The controls of the row at r that the row setter writes: named, with an
\* sdtContent.
RowControls(ns, r, section_name) ==
    {j \in Desc(ns, r) : /\ ns[j].el = "sdt" /\ ns[j].pr /\ ns[j].content
                         /\ ControlName(ns[j]) \in RowNames(section_name)}

\* The row at r was made from the template row for item: the template's
\* controls, with the item's material in Module.
IsCloneFor(r, item) ==
    /\ Skeleton(After, r) = Skeleton(Before, CallTemplateRow)
    /\ \A j \in RowControls(After, r, call.section_name) :
           ControlName(After[j]) = "Module"
           => FirstText(After, j) = PyStr(Get(item.material, Str("")))

RowsReplaced ==
    /\ Cardinality(RowsAfter) = Len(call.items)
    /\ call.result.changes = Len(call.items)
    /\ \A k \in 1..Len(call.items) : IsCloneFor(Nth(RowsAfter, k), call.items[k])

C3_WholeTextIsValue ==
    (pc = "called" /\ call.result.changes > 0) =>
    \A k \in 1..Len(call.items) :
        \A j \in RowControls(After, Nth(RowsAfter, k), call.section_name) :
            ContentText(After, j) =
                Expected(ControlName(After[j]), call.section_name, call.items[k])

\* The k-th sdt of a part: the standard pass adds and removes no sdt.
SdtAt(ns, k) == Nth({i \in 1..Len(ns) : ns[i].el = "sdt"}, k)
SdtCount(ns) == Cardinality({i \in 1..Len(ns) : ns[i].el = "sdt"})

\* Node i lies in a repeating row: it or an ancestor is a repeating item.
RECURSIVE InRow(_, _)
InRow(ns, i) ==
    IF i = 0 THEN FALSE
    ELSE IF IsRowItem(ns[i]) THEN TRUE
    ELSE InRow(ns, Parent(ns, i))

\* Node i lies in the section container tagged section_name.
InSection(ns, i, section_name) ==
    LET sec == SectionSdt(ns, section_name)
    IN sec # 0 /\ i \in Desc(ns, sec)

\* The rows of the section were made by the cloning pass.
Cloned1 ==
    /\ data.oneTimeCosts # <<>>
    /\ duplicate_repeating_section(template.part, "items1",
                                   data.oneTimeCosts).changes > 0
Cloned2 ==
    /\ data.recurringCosts # <<>>
    /\ duplicate_repeating_section(
           IF data.oneTimeCosts # <<>>
           THEN duplicate_repeating_section(template.part, "items1",
                                            data.oneTimeCosts).xml
           ELSE template.part,
           "items2", data.recurringCosts).changes > 0
InClonedRow(ns, i) ==
    /\ InRow(ns, i)
    /\ \/ Cloned1 /\ InSection(ns, i, "items1")
       \/ Cloned2 /\ InSection(ns, i, "items2")

\* C4 as stated: after both passes every row control inside a cloned
\* repeating row holds what the cloning pass wrote for its item: the
\* standard pass, whatever the control mappings, overwrites or empties no
\* text inside such a row.
C4_RowsKeptByStandardPass ==
    pc = "passed" =>
    \A k \in 1..SdtCount(cloned.xml.nodes) :
        LET i == SdtAt(cloned.xml.nodes, k)
        IN (/\ cloned.xml.nodes[i].pr
            /\ ControlName(cloned.xml.nodes[i]) \in row_fields
            /\ InClonedRow(cloned.xml.nodes, i))
           => ContentText(xml_content.nodes, SdtAt(xml_content.nodes, k))
                  = ContentText(cloned.xml.nodes, i)

\* C9 as stated: process_word_template never propagates an exception.
C9_NeverRaises == pc # "raised"

\* The named controls of a part that have an sdtContent.
Filled(ns, name) ==
    {j \in 1..Len(ns) : /\ ns[j].el = "sdt" /\ ns[j].pr /\ ns[j].content
                        /\ ControlName(ns[j]) = name}

\* The totals of the claim, from the 'total' fields of the record, in cents.
OneTimeTotal == SumTotals(data.oneTimeCosts)
RecurringTotal == SumTotals(data.recurringCosts)
ExclVat == OneTimeTotal + RecurringTotal
\* 21% of the total, to the nearest cent.
Vat == (ExclVat * 21 + 50) \div 100

\* C10: the totals written into the document are the sum of the 'total'
\* fields of oneTimeCosts, that of recurringCosts, their sum, 21% of it, and
\* the sum plus the VAT, each with two decimals (500 and 600 give 1100.00,
\* 231.00 and 1331.00).
C10_TotalsWritten ==
    (pc = "done" /\ ret = "True" /\ output.part.wf) =>
    LET ns == output.part.nodes
    IN /\ \A j \in Filled(ns, "totaaleenmalig") :
              ContentText(ns, j) = Fmt2(OneTimeTotal)
       /\ \A j \in Filled(ns, "totaaljaarlijks") :
              ContentText(ns, j) = Fmt2(RecurringTotal)
       /\ \A j \in Filled(ns, "total") : ContentText(ns, j) = Fmt2(ExclVat)
       /\ \A j \in Filled(ns, "vat") : ContentText(ns, j) = Fmt2(Vat)
       /\ \A j \in Filled(ns, "grandtotal") :
              ContentText(ns, j) = Fmt2(ExclVat + Vat)
       /\ (OneTimeTotal = 50000 /\ RecurringTotal = 60000) =>
              /\ \A j \in Filled(ns, "total") : ContentText(ns, j) = "1100.00"
              /\ \A j \in Filled(ns, "vat") : ContentText(ns, j) = "231.00"
              /\ \A j \in Filled(ns, "grandtotal") :
                     ContentText(ns, j) = "1331.00"

\* C10 witness: 500 and 600 written as 1100.00, 231.00 and 1331.00.
C10_Witness ==
    /\ pc = "done" /\ ret = "True"
    /\ OneTimeTotal = 50000 /\ RecurringTotal = 60000
    /\ \E j \in Filled(output.part.nodes, "vat") :
           ContentText(output.part.nodes, j) = "231.00"
    /\ \E j \in Filled(output.part.nodes, "grandtotal") :
           ContentText(output.part.nodes, j) = "1331.00"

\* ------------------------------------------------- claims about the servers
\* The handler of r sends its answer in this step, with status 200.
Sends200(r) ==
    /\ conns[r].pc = "generated"
    /\ conns'[r].pc = "responded"
    /\ conns'[r].response.status = 200

\* C5 as stated: whenever POST /generate-quotation answers 200, the body
\* carries success = true and a filename, and a file of exactly that name is
\* on disk when the answer is sent.
C5_FilenameOnDisk ==
    [][\A r \in DOMAIN conns :
           Sends200(r) =>
           LET body == conns'[r].response
           IN /\ body.success
              /\ body.filename # NoName
              /\ Exists(disk, body.filename.stem, body.filename.ext)]_vars

\* C5 amended: whenever POST /generate-quotation answers 200, the body
\* carries success = true and a filename; final_quotation_server and
\* unified_server also give a download_url, and the .docx it names is on disk
\* when the answer is sent.  In final_quotation_server filename is the name
\* of that .docx; in unified_server it is that name with .pdf for .docx,
\* whether or not a file of that name is on disk.
C5_GeneratedOnDisk ==
    [][\A r \in DOMAIN conns :
           Sends200(r) =>
           LET body == conns'[r].response
           IN /\ body.success
              /\ body.filename # NoName
              /\ server \in {"final", "unified"} =>
                     /\ body.download_url.ext = ".docx"
                     /\ Exists(disk, body.download_url.stem, ".docx")
              /\ server = "final" => body.filename = body.download_url
              /\ server = "unified" =>
                     body.filename =
                         [stem |-> body.download_url.stem, ext |-> ".pdf"]
              /\ server = "enhanced" =>
                     Exists(disk, body.filename.stem, body.filename.ext)]_vars

\* C5 witness: unified_server has answered 200 with a .pdf name while the
\* .docx is on disk and no file of the .pdf name is.
C5_Witness ==
    /\ server = "unified"
    /\ \E r \in DOMAIN conns :
           /\ conns[r].pc = "responded"
           /\ conns[r].response.status = 200
           /\ conns[r].response.filename.ext = ".pdf"
           /\ Exists(disk, conns[r].response.download_url.stem, ".docx")
           /\ ~Exists(disk, conns[r].response.filename.stem, ".pdf")

\* The values of the six table controls of a part, each in document order.
TableControls ==
    {"Module", "Aantal", "éénmalige setupkost", "calctotaalsetup", "Jaarlijks",
     "calctotaaljaarlijks"}
Named(ns, name) ==
    {j \in 1..Len(ns) : ns[j].el = "sdt" /\ ns[j].pr /\ ControlName(ns[j]) = name}
TableValues(part) ==
    [name \in TableControls |->
        [k \in 1..Cardinality(Named(part.nodes, name)) |->
            ContentText(part.nodes, Nth(Named(part.nodes, name), k))]]

\* What a direct call of process_word_template writes for d from the
\* installed template.
DirectDocument(d) ==
    ReadFile(process_word_template(controls,
                 {File(template_file, ".docx", template.part, FALSE)},
                 template_file, d, "direct_method_test").files,
             "direct_method_test", ".docx")

Active ==
    {r \in DOMAIN conns :
         conns[r].pc \in {"accepted", "generated", "downloaded", "responded"}}

\* C7: the servers handle requests one at a time: from accepting a
\* connection to shutting it, generation and file writes included, no other
\* connection is being handled.
C7_OneAtATime == Cardinality(Active) <= 1

\* C7 witness: one request has been handled to the end and the next one is
\* being handled.
C7_Witness ==
    \E r1, r2 \in DOMAIN conns :
        /\ conns[r1].pc = "closed"
        /\ conns[r1].result.status = 200
        /\ conns[r2].pc = "generated"

\* C8 as stated: once its requests have been handled, a server has changed
\* nothing on disk except creating the documents it reported: the template
\* is as installed, and there is no other file (temporary copy, backup copy,
\* intermediate document).
C8_OnlyOutputs ==
    (pc = "serving" /\ ~ServerBusy(conns)) =>
    /\ template.exists =>
           File(template_file, ".docx", template.part, FALSE) \in disk
    /\ \A f \in disk :
           \/ f.stem = template_file /\ f.ext = ".docx"
           \/ \E r \in DOMAIN conns :
                  /\ conns[r].result.status = 200
                  /\ conns[r].result.filename = [stem |-> f.stem, ext |-> f.ext]

\* ------------------------------------------ claims on the written document
\* The fields of the record that lines 562-573 map directly.
DirectFields ==
    {"companyName", "contactName", "address", "postalCode", "city", "companyId"}

\* The sdt at i is a control with content whose name is configured as a
\* direct field.
IsDirectField(ns, i) ==
    /\ ns[i].el = "sdt" /\ ns[i].pr /\ ns[i].content
    /\ ControlName(ns[i]) \in DOMAIN controls
    /\ controls[ControlName(ns[i])].type = "field"
    /\ controls[ControlName(ns[i])].value \in DirectFields

\* The value of a field of the record, '' when the record lacks it.
FieldValue(d, field) == PyStr(Get(d[field], Str("")))

\* C11 as stated: after process_word_template has written the document,
\* every control configured as a direct field of companyName, contactName,
\* address, postalCode, city or companyId contains exactly that field's
\* value, the empty string when the record lacks the field.
C11_DirectFieldsWritten ==
    (pc = "done" /\ ret = "True" /\ output.part.wf) =>
    \A i \in 1..Len(output.part.nodes) :
        IsDirectField(output.part.nodes, i) =>
            ContentText(output.part.nodes, i)
                = FieldValue(data, controls[ControlName(output.part.nodes[i])].value)

\* The archive at output_path once process_word_template has returned:
\* doc.save (line 765) has put the cost summary into word/document.xml when
\* one was appended.
Saved(entries, summary) ==
    [k \in 1..Len(entries) |->
        [entry |-> entries[k],
         summary |-> summary /\ entries[k].filename = "word/document.xml"]]

\* Entry k of the template is a processed part in which no control changes.
ZeroChanged(k) ==
    /\ Archive(template)[k].filename \in processed_names
    /\ process_content_controls_xml(Archive(template)[k].part,
                                    control_mappings, data).changes = 0

\* The written archive has the entries of the template in the same order,
\* the entries that are not processed and the processed parts without a
\* changed control with the bytes of the template.
ArchiveKept ==
    /\ [k \in 1..Len(output.entries) |-> output.entries[k].filename]
           = [k \in 1..Len(Archive(template)) |-> Archive(template)[k].filename]
    /\ \A k \in 1..Len(Archive(template)) :
           (Archive(template)[k].filename \notin processed_names \/ ZeroChanged(k))
           => Saved(output.entries, output.summary)[k]
                  = Saved(Archive(template), FALSE)[k]

\* C12 as stated: the output archive written by process_word_template has
\* exactly the entries of the template archive, in the same order; every
\* entry other than word/document.xml and the header and footer parts is
\* byte-identical, and so is a processed part in which zero controls changed.
C12_ArchiveKept == (pc = "done" /\ ret = "True") => ArchiveKept

\* C12, amended: the same, for the calls that append no cost summary.
C12_ArchiveKeptWithoutSummary ==
    (pc = "done" /\ ret = "True" /\ ~output.summary) => ArchiveKept

\* C12 witness: a call without cost items has returned; the header was
\* written with a changed control, the footer without a change.
C12_Witness ==
    /\ pc = "done" /\ ret = "True" /\ ~output.summary
    /\ template.part = TplWord /\ template.header = HdrNaam
    /\ Len(output.entries) = 5
    /\ output.entries[3].part # template.header
    /\ ZeroChanged(4) /\ output.entries[4].part = TplPlain
    /\ output.entries[5].raw = "styles"

\* The text begins with the declaration the text before began with, once.
SameDeclaration(before, after) ==
    before.decl # <<>> => after.decl = <<Head(before.decl)>>

C14_CorsOnEveryResponse ==
    \A r \in DOMAIN conns :
        conns[r].pc \in {"responded", "closed"} =>
            /\ Header("Access-Control-Allow-Origin", "*") \in conns[r].response.headers
            /\ \E h \in conns[r].response.headers :
                   h.name = "Access-Control-Allow-Methods"
            /\ \E h \in conns[r].response.headers :
                   h.name = "Access-Control-Allow-Headers"

\* C14 witness: a preflight request has been answered and a POST has been
\* answered with an error status.
C14_Witness ==
    \E r1, r2 \in DOMAIN conns :
        /\ conns[r1].request.method = "OPTIONS"
        /\ conns[r1].pc = "closed" /\ conns[r1].response.status = 200
        /\ conns[r2].request.method = "POST"
        /\ conns[r2].pc = "responded" /\ conns[r2].response.status \in {404, 500}

\* ------------------------------------------- claims on the produced rows
\* The children of the template row's parent that are not repeating rows,
\* before and after the direct call, and the subtree of a node.
OtherBefore == {c \in Children(Before, CallParent) : ~IsRowItem(Before[c])}
OtherAfter == {c \in Children(After, CallParent) : ~IsRowItem(After[c])}
Subtree(ns, i) == SubSeq(ns, i, SubEnd(ns, i))

\* C15 as stated: the rows produced by duplicate_repeating_section take the
\* place of the template row inside its parent: the children that are not
\* repeating rows are kept in their order, each of them that preceded the
\* template row precedes every produced row and each of them that followed
\* it follows every produced row.
C15_RowsInPlace ==
    (CallHasRow /\ call.result.changes > 0) =>
    /\ Cardinality(OtherAfter) = Cardinality(OtherBefore)
    /\ \A k \in 1..Cardinality(OtherBefore) :
           /\ Subtree(After, Nth(OtherAfter, k)) = Subtree(Before, Nth(OtherBefore, k))
           /\ Nth(OtherBefore, k) < CallTemplateRow
              => \A r \in RowsAfter : Nth(OtherAfter, k) < r
           /\ Nth(OtherBefore, k) > CallTemplateRow
              => \A r \in RowsAfter : Nth(OtherAfter, k) > r

\* ------------------------------------------------ claims on empty lists
\* The section container tagged section_name with all it holds; <<>> when
\* the part has none.
SectionOf(part, section_name) ==
    IF SectionSdt(part.nodes, section_name) = 0 THEN <<>>
    ELSE Subtree(part.nodes, SectionSdt(part.nodes, section_name))

\* The cloning pass left the section as the template has it and counted
\* only the rows made for the other section.
Untouched(section_name, other, items) ==
    /\ SectionOf(cloned.xml, section_name) = SectionOf(template.part, section_name)
    /\ cloned.changes =
           IF items = <<>> THEN 0
           ELSE duplicate_repeating_section(template.part, other, items).changes

\* C16: when a cost list is empty, process_repeating_sections does not touch
\* the corresponding section: its template row is neither removed nor filled
\* and 0 changes are reported for it; with both lists empty the part comes
\* back as it was, and process_word_template on an existing template returns
\* True and appends no cost summary.
C16_EmptyListUntouched ==
    /\ (pc = "cloned" /\ template.part.wf /\ data.oneTimeCosts = <<>>)
       => Untouched("items1", "items2", data.recurringCosts)
    /\ (pc = "cloned" /\ template.part.wf /\ data.recurringCosts = <<>>)
       => Untouched("items2", "items1", data.oneTimeCosts)
    /\ (pc = "cloned" /\ data.oneTimeCosts = <<>> /\ data.recurringCosts = <<>>)
       => cloned = [xml |-> template.part, changes |-> 0]
    /\ (pc = "done" /\ template.exists
        /\ data.oneTimeCosts = <<>> /\ data.recurringCosts = <<>>)
       => ret = "True" /\ ~output.summary

\* C16 witness: no one-time costs and one recurring item; the cloning pass
\* filled the row of items2 and left the row of items1, which the template
\* has, in its place.
C16_Witness ==
    /\ pc = "cloned" /\ template.part = TplWord
    /\ data.oneTimeCosts = <<>> /\ data.recurringCosts = <<ItemModule>>
    /\ cloned.changes = 1
    /\ cloned.xml # template.part
    /\ ItemSdts(cloned.xml.nodes, SectionSdt(cloned.xml.nodes, "items1")) # {}

\* ------------------------------------------- claims on the standard pass
\* The standard pass counts the sdt at i: it is named and it is not a row
\* control inside a repeating row.
IsCounted(ns, i) ==
    /\ ns[i].el = "sdt" /\ ns[i].pr /\ ControlName(ns[i]) # ""
    /\ ~(ControlName(ns[i]) \in row_fields /\ is_inside_repeating_section(ns, i))

\* The number of the occurrence at i among the counted controls of its name.
Occurrence(ns, i) ==
    Cardinality({j \in 1..i : IsCounted(ns, j)
                              /\ ControlName(ns[j]) = ControlName(ns[i])})

\* The value the standard pass has for the control at i.
Replacement(ns, i) ==
    get_contextual_value(ControlName(ns[i]), Occurrence(ns, i),
                         control_mappings, data)

\* The standard pass updated the control at i.
IsUpdated(ns, i) ==
    /\ IsCounted(ns, i) /\ ns[i].content
    /\ ~Replacement(ns, i).raised /\ Replacement(ns, i).has

\* C17 as stated: after the standard pass, for every control it updated the
\* concatenation of all text elements inside the control's content equals
\* exactly its replacement value, also when the control contains other named
\* controls or is contained in one.
C17_WholeTextIsReplacement ==
    (pc = "passed" /\ xml_content.wf) =>
    \A i \in 1..Len(xml_content.nodes) :
        IsUpdated(xml_content.nodes, i)
        => ContentText(xml_content.nodes, i) = Replacement(xml_content.nodes, i).v

\* float() and the format accept the price of the first item of a list.
Priced(items) == items = <<>> \/ ~FloatRaises(Get(items[1].unitPrice, Num(0)))

\* The value of the occurrence numbered occ of a row control outside the
\* repeating rows: Module and Aantal from the first one-time item at
\* occurrence 1 and from the first recurring item at occurrence 2, '' in any
\* other case; the one-time price and total from the first one-time item at
\* occurrence 1, the yearly price and total from the first recurring item
\* at occurrence 2, '€0.00' in any other case.
Contextual(name, occ, d) ==
    LET from == IF name \in {"Module", "Aantal"}
                THEN (IF occ = 1 THEN d.oneTimeCosts
                      ELSE IF occ = 2 THEN d.recurringCosts ELSE <<>>)
                ELSE IF name \in {"éénmalige setupkost", "calctotaalsetup"}
                THEN (IF occ = 1 THEN d.oneTimeCosts ELSE <<>>)
                ELSE (IF occ = 2 THEN d.recurringCosts ELSE <<>>)
    IN IF from = <<>>
       THEN (IF name \in {"Module", "Aantal"} THEN "" ELSE "€0.00")
       ELSE CASE name = "Module" -> PyStr(Get(from[1].material, Str("")))
              [] name = "Aantal" -> PyStr(Get(from[1].quantity, Str("")))
              [] name \in {"éénmalige setupkost", "Jaarlijks"} ->
                    "€" \o Fmt2(Get(from[1].unitPrice, Num(0)).n)
              [] OTHER ->
                    "€" \o Fmt2(Get(from[1].quantity, Num(0)).n
                                * Get(from[1].unitPrice, Num(0)).n)

\* C18: the standard pass numbers the occurrences of a control name 1, 2,
\* ... in document order, not counting the row controls it skips inside
\* repeating rows, and with prices that are numbers it fills Module, Aantal,
\* éénmalige setupkost, calctotaalsetup, Jaarlijks and calctotaaljaarlijks
\* by that number: Module and Aantal from the first one-time item at
\* occurrence 1 and the first recurring item at occurrence 2, otherwise '';
\* the one-time price and total at occurrence 1 only and the yearly price
\* and total at occurrence 2 only, otherwise '€0.00'.
C18_ValuesByOccurrence ==
    (pc = "passed" /\ xml_content.wf
     /\ Priced(data.oneTimeCosts) /\ Priced(data.recurringCosts)) =>
    \A i \in 1..Len(xml_content.nodes) :
        (/\ IsCounted(xml_content.nodes, i) /\ xml_content.nodes[i].content
         /\ ControlName(xml_content.nodes[i]) \in row_fields)
        => ContentText(xml_content.nodes, i)
               = Contextual(ControlName(xml_content.nodes[i]),
                            Occurrence(xml_content.nodes, i), data)

\* C18 witness: two tables outside repeating sections, one item in each
\* list: the second Module is the recurring item's, the third is empty, the
\* first yearly price is €0.00 and the second is the recurring item's.
C18_Witness ==
    /\ pc = "passed" /\ template.part = TplTable
    /\ data.oneTimeCosts = <<ItemSetup>> /\ data.recurringCosts = <<ItemModule>>
    /\ \E i, j, k \in 1..Len(xml_content.nodes) :
           /\ i < j /\ j < k
           /\ ControlName(xml_content.nodes[i]) = "Module"
           /\ ControlName(xml_content.nodes[j]) = "Module"
           /\ ControlName(xml_content.nodes[k]) = "Module"
           /\ ContentText(xml_content.nodes, i) = "Setup kosten"
           /\ ContentText(xml_content.nodes, j) = "Test Module"
           /\ ContentText(xml_content.nodes, k) = ""
    /\ \E i, j \in 1..Len(xml_content.nodes) :
           /\ i < j
           /\ ControlName(xml_content.nodes[i]) = "Jaarlijks"
           /\ ControlName(xml_content.nodes[j]) = "Jaarlijks"
           /\ ContentText(xml_content.nodes, i) = "€0.00"
           /\ ContentText(xml_content.nodes, j) = "€200.00"

\* ------------------------------------------------ claims on control names
\* The name rule of the claim: the alias when it is present and non-empty,
\* the tag otherwise.
AliasElseTag(n) == IF n.alias # "" THEN n.alias ELSE n.tag

\* The sdt at i is a control with an alias A and another name T as tag,
\* holding no other control.
HasAliasAndTag(ns, i) ==
    /\ ns[i].el = "sdt" /\ ns[i].pr /\ ns[i].content
    /\ ns[i].alias # "" /\ ns[i].tag # "" /\ ns[i].alias # ns[i].tag
    /\ \A j \in Desc(ns, i) : ns[j].el # "sdt"

\* The rows of the section named section_name: the repeating items beside
\* its first one.
RowsIn(ns, section_name) ==
    LET sec == SectionSdt(ns, section_name)
    IN IF sec = 0 \/ ItemSdts(ns, sec) = {} THEN {}
       ELSE {c \in Children(ns, Parent(ns, Min(ItemSdts(ns, sec)))) :
                 IsRowItem(ns[c])}

\* The row setter names by alias: in the row made for the k-th item, a
\* control with alias A and tag T holds the item's value for A when A is a
\* row control of the section, and the text of the template row otherwise,
\* whatever T names.
RowsByAlias(before, after, section_name, items) ==
    \A k \in 1..Len(items) :
        k <= Cardinality(RowsIn(after, section_name)) =>
        \A j \in Desc(after, Nth(RowsIn(after, section_name), k)) :
            HasAliasAndTag(after, j) =>
            IF AliasElseTag(after[j]) \in RowNames(section_name)
            THEN FirstText(after, j)
                     = Expected(after[j].alias, section_name, items[k])
            ELSE \E t \in Desc(before, Min(RowsIn(before, section_name))) :
                     /\ before[t].alias = after[j].alias
                     /\ before[t].tag = after[j].tag
                     /\ FirstText(before, t) = FirstText(after, j)

\* The sdt at i lies in the content of a control that has a value.
InsideValued(ns, i, mappings) ==
    \E a \in 1..(i - 1) :
        /\ ns[a].el = "sdt" /\ ns[a].pr /\ i \in Desc(ns, a)
        /\ AliasElseTag(ns[a]) \in DOMAIN mappings \cup row_fields

\* The standard pass names by alias: a control with alias A and tag T that
\* lies in no control with a value keeps its text when A is a row control
\* inside a repeating row or when A has no value, and holds the value of A
\* when A has one, whatever T names.
StandardByAlias(before, after, mappings) ==
    \A k \in 1..SdtCount(before) :
        LET i == SdtAt(before, k)
            j == SdtAt(after, k)
        IN (/\ HasAliasAndTag(before, i)
            /\ ~InsideValued(before, i, mappings)
            /\ ~(AliasElseTag(before[i]) \in row_fields
                 /\ ~is_inside_repeating_section(before, i))) =>
           /\ after[j].alias = before[i].alias /\ after[j].tag = before[i].tag
           /\ FirstText(after, j) =
                  IF AliasElseTag(before[i]) \notin row_fields
                     /\ AliasElseTag(before[i]) \in DOMAIN mappings
                  THEN mappings[before[i].alias]
                  ELSE FirstText(before, i)

\* C19: a control's name is its alias when the alias is present and
\* non-empty, and its tag otherwise; the row setter and the standard pass
\* both resolve names so, and a control with alias A and tag T is filled as
\* A and never as T: in the rows made by duplicate_repeating_section, called
\* directly or by the cloning pass, and in the part the standard pass
\* leaves.
C19_NamedByAlias ==
    /\ (pc = "called" /\ call.result.changes > 0)
       => RowsByAlias(Before, After, call.section_name, call.items)
    /\ (pc \in {"cloned", "passed"} /\ cloned.xml.wf /\ cloned.changes > 0)
       => /\ RowsByAlias(template.part.nodes, cloned.xml.nodes, "items1",
                         data.oneTimeCosts)
          /\ RowsByAlias(template.part.nodes, cloned.xml.nodes, "items2",
                         data.recurringCosts)
    /\ (pc = "passed" /\ xml_content.wf
        /\ Priced(data.oneTimeCosts) /\ Priced(data.recurringCosts))
       => StandardByAlias(cloned.xml.nodes, xml_content.nodes, control_mappings)

\* C19 witness: the part with aliases and tags that name different
\* controls, after the standard pass, with one one-time item and no list
\* control configured.  The control
\* with alias praktijk and tag naam holds the company name and not the
\* contact name; the control with the unconfigured alias onbekend and tag
\* praktijk kept its text; in the row, the control with alias Module and tag
\* Aantal holds the material and the control with alias Omschrijving and tag
\* Module kept its text.
C19_Witness ==
    /\ pc = "passed" /\ template.part = TplNested
    /\ controls = ControlsPlain
    /\ data.oneTimeCosts = <<ItemModule>>
    /\ FieldValue(data, "companyName") # FieldValue(data, "contactName")
    /\ \E i, j, m, o \in 1..Len(xml_content.nodes) :
           /\ HasAliasAndTag(xml_content.nodes, i)
           /\ xml_content.nodes[i].alias = "praktijk"
           /\ xml_content.nodes[i].tag = "naam"
           /\ FirstText(xml_content.nodes, i) = FieldValue(data, "companyName")
           /\ xml_content.nodes[j].alias = "onbekend"
           /\ xml_content.nodes[j].tag = "praktijk"
           /\ FirstText(xml_content.nodes, j) = "[onbekend]"
           /\ xml_content.nodes[m].alias = "Module"
           /\ xml_content.nodes[m].tag = "Aantal"
           /\ FirstText(xml_content.nodes, m) = "Test Module"
           /\ xml_content.nodes[o].alias = "Omschrijving"
           /\ xml_content.nodes[o].tag = "Module"
           /\ FirstText(xml_content.nodes, o) = "[omschrijving]"

\* ------------------------------------------------- claims on failing parts
\* Entry k of the template is a processed part whose text does not parse.
Fails(k) ==
    /\ Archive(template)[k].filename \in processed_names
    /\ ~Archive(template)[k].part.wf

Generates(r) == conns[r].pc = "accepted" /\ conns'[r].pc = "generated"

\* The handler of r sends its answer in this step.
Answers(r) == conns[r].pc = "generated" /\ conns'[r].pc = "responded"

Downloads(r) ==
    /\ conns[r].pc = "accepted" /\ conns'[r].pc \in {"downloaded", "responded"}
    /\ conns[r].request.method = "GET"
    /\ conns[r].request.path = "/download/"

\* <name> ends with .docx and the file is on disk.
IsThere(files, name) == name.ext = ".docx" /\ Exists(files, name.stem, name.ext)

\* C22 as stated: in final_quotation_server GET /download/<name> answers
\* 200 and sends the file exactly when <name> ends with .docx and the file
\* exists, 404 otherwise (a 500 follows the 200 only when the client has
\* gone and the bytes could not be written); the download leaves the disk
\* as it is and no clean-up follows; and once a POST has been answered 200,
\* every download of its download_url, requested as a client sends it,
\* succeeds.
C22_DownloadKeepsFile ==
    [][server = "final" =>
       \A r \in DOMAIN conns :
           Downloads(r) =>
           LET name == conns[r].request.file
               res == conns'[r].result
           IN /\ IsThere(disk, name) <=> res.status = 200
              /\ ~IsThere(disk, name) => res.statuses = <<404>>
              /\ IsThere(disk, name) =>
                     \/ res.statuses = <<200>> /\ res.filename = name
                     \/ res.statuses = <<200, 500>> /\ res.filename = NoName
              /\ disk' = disk
              /\ conns'[r].pc = "responded"
              /\ \A q \in DOMAIN conns :
                     (/\ conns[q].request.method = "POST"
                      /\ conns[q].pc = "closed"
                      /\ conns[q].response.status = 200
                      /\ name = quote(conns[q].response.download_url))
                     => res.status = 200]_vars

\* The handler of r downloads and convert (line 80) returns.
Converted(r) == Downloads(r) /\ conns'[r].result.conv = "ok"

\* The handler of r runs lines 94-100 in this step.
CleansUp(r) == conns[r].pc = "downloaded" /\ conns'[r].pc = "responded"

\* The names of the files on disk.
Names(files) == {Name(f.stem, f.ext) : f \in files}

\* An earlier download of name had its PDF made.
ConvertedBefore(r, name) ==
    \E q \in DOMAIN conns :
        /\ q # r
        /\ conns[q].pc \in {"responded", "closed"}
        /\ conns[q].request.method = "GET"
        /\ conns[q].request.file = name
        /\ conns[q].result.conv = "ok"

\* C23 as stated: in unified_server a download whose PDF conversion
\* succeeds goes on to delete the .docx and the .pdf; files leave the disk
\* only in the clean-up of a download that has written the PDF bytes; and a
\* later GET of the same download_url answers 404.
C23_DownloadedOnce ==
    [][server = "unified" =>
       /\ \A r \in DOMAIN conns :
              Converted(r) =>
              LET name == conns[r].request.file
                  pdf == Name(name.stem, ".pdf")
              IN /\ conns'[r].pc = "downloaded"
                 /\ conns'[r].result.cleanup = {name, pdf}
                 /\ {name, pdf} \subseteq Names(disk')
       /\ \A r \in DOMAIN conns :
              CleansUp(r) =>
              Names(disk') = Names(disk) \ conns[r].result.cleanup
       /\ Names(disk) \ Names(disk') # {} =>
              \E r \in DOMAIN conns :
                  /\ CleansUp(r)
                  /\ conns[r].result.statuses = <<200>>
                  /\ conns[r].result.filename =
                         Name(conns[r].request.file.stem, ".pdf")
       /\ \A r \in DOMAIN conns :
              (Downloads(r) /\ ConvertedBefore(r, conns[r].request.file))
              => conns'[r].result.statuses = <<404>>]_vars

\* What holds of C23: the same with "whose PDF bytes were written" in
\* place of "whose conversion succeeds".
DeletedWhenSent ==
    [][server = "unified" =>
       /\ \A r \in DOMAIN conns :
              (Converted(r) /\ conns'[r].result.statuses = <<200>>) =>
              LET name == conns[r].request.file
                  pdf == Name(name.stem, ".pdf")
              IN /\ conns'[r].pc = "downloaded"
                 /\ conns'[r].result.cleanup = {name, pdf}
                 /\ {name, pdf} \subseteq Names(disk')
       /\ \A r \in DOMAIN conns :
              CleansUp(r) =>
              Names(disk') = Names(disk) \ conns[r].result.cleanup
       /\ Names(disk) \ Names(disk') # {} =>
              \E r \in DOMAIN conns :
                  /\ CleansUp(r)
                  /\ conns[r].result.statuses = <<200>>]_vars

\* The handler of r downloads and convert (line 80) raises.
FellBack(r) == Downloads(r) /\ conns'[r].result.conv = "failed"

\* C24: in unified_server a download whose conversion fails answers 200
\* with the .docx as a Word document, removes nothing and has no clean-up,
\* so the file is still there for the next request of the URL; and a
\* download of an existing .docx answers 500 only after a 200, when no file
\* could be sent.
C24_FallbackKeepsFile ==
    [][server = "unified" =>
       \A r \in DOMAIN conns :
           LET name == conns[r].request.file
               res == conns'[r].result
           IN /\ FellBack(r) =>
                    /\ res.status = 200
                    /\ Header("Content-Type", DocxType)
                           \in conns'[r].response.headers
                    /\ \/ res.statuses = <<200>> /\ res.filename = name
                       \/ res.statuses = <<200, 500>> /\ res.filename = NoName
                    /\ disk' = disk
                    /\ res.cleanup = {}
                    /\ conns'[r].pc = "responded"
                    /\ IsThere(disk', name)
              /\ (Downloads(r) /\ IsThere(disk, name)) =>
                    /\ res.status = 200
                    /\ (\E i \in DOMAIN res.statuses : res.statuses[i] = 500)
                           <=> res.filename = NoName]_vars

\* A download fell back to the .docx and a later download of the same URL
\* was answered 200 as well.
C24_Witness ==
    /\ server = "unified"
    /\ \E q, r \in DOMAIN conns :
           /\ q < r
           /\ conns[q].pc = "closed" /\ conns[r].pc \in {"responded", "closed"}
           /\ conns[q].request.method = "GET" /\ conns[r].request.method = "GET"
           /\ conns[q].request.path = "/download/"
           /\ conns[q].request.file = conns[r].request.file
           /\ conns[q].result.conv = "failed"
           /\ conns[q].result.statuses = <<200>>
           /\ conns[q].result.filename = conns[q].request.file
           /\ conns[r].result.statuses = <<200>>

\* ------------------------------------ claims on the exits of the cloning
\* The sdt elements of the part that carry the tag of the call.
Tagged == {i \in DOMAIN Before :
              /\ Before[i].el = "sdt" /\ Before[i].pr
              /\ Before[i].tag = call.section_name}

\* The first of them, the section container, has content.
HasContent == Tagged # {} /\ Before[Min(Tagged)].content

\* The repeating row items inside the section container.
ItemsInside ==
    {j \in DOMAIN Before :
        /\ j > Min(Tagged) /\ j <= SubEnd(Before, Min(Tagged))
        /\ Before[j].el = "sdt" /\ Before[j].pr /\ Before[j].rsi # "none"}

\* float() raises for an item while the rows are cloned (lines 427-430);
\* a template row without sdtContent is skipped before (lines 421-423).
CloningRaises ==
    /\ HasContent /\ ItemsInside # {}
    /\ Before[Min(ItemsInside)].content
    /\ \E k \in DOMAIN call.items : ItemRaises(call.items[k])

\* The call cannot complete: the text does not parse, there is no section
\* container, the container has no content, there is no row item in it, or
\* the cloning raises.
CannotComplete ==
    \/ ~template.part.wf
    \/ Tagged = {}
    \/ ~HasContent
    \/ ItemsInside = {}
    \/ CloningRaises

\* C25: whenever duplicate_repeating_section cannot complete it returns the
\* text it was given, declaration included, with 0 changes; and a text that
\* differs from the input comes only from a call that completed, with one
\* row counted for every item.
C25_AllOrNothing ==
    pc = "called" =>
        /\ CannotComplete => call.result = [xml |-> template.part, changes |-> 0]
        /\ call.result.xml # template.part =>
               /\ ~CannotComplete
               /\ call.result.changes =
                      IF Before[Min(ItemsInside)].content
                      THEN Len(call.items) ELSE 0
               /\ Cardinality(RowsAfter) = call.result.changes

\* C25 witness: a section with a filled template row and an item whose
\* price is not a number: the rows were taken out of the tree, float()
\* raised, and the call returned the text it was given.
C25_Witness ==
    /\ pc = "called" /\ template.part = TplWord
    /\ call.section_name = "items1"
    /\ call.items = <<ItemBadPrice>>
    /\ CloningRaises
    /\ RowsBefore # {}
    /\ call.result = [xml |-> template.part, changes |-> 0]
====
